---- MODULE Spec2Model ----
(***************************************************************************)
(* The event pipeline of ijson-rust: Parser::next (src/src/parser.rs)      *)
(* driving the JSON grammar over the lexemes of a Peekable lexer, and the  *)
(* Prefix filter (src/src/builder.rs) wrapped around it.                   *)
(*                                                                         *)
(* A lexeme is a Vec<u8>: here a sequence of one-character strings.  The   *)
(* lexer is the environment: each pull delivers a lexeme, a lexer error or *)
(* the end of the input, and what it has delivered so far is recorded in   *)
(* `input`.                                                                *)
(***************************************************************************)
EXTENDS Integers, Sequences, FiniteSets, TLC

VARIABLES
    state,      \* Parser.state: [name, can_close]
    stack,      \* Parser.stack: sequence of "[" / "{"
    peeked,     \* the Peekable's slot: NoPeek or a lexer item
    input,      \* lexer items delivered so far (peeked one included)
    eof,        \* the lexer has reported the end of the input
    budget,     \* lexer items the input still holds at most
    script,     \* [on, rest]: when on, the lexemes the input is known to hold
    doc,        \* the JSON value the scripted input is the text of
    tail,       \* lexer items delivered after the first error was yielded
    failed,     \* some next() call has yielded an Err
    panicked,   \* a next() call has panicked: the program is gone
    out,        \* items yielded by Parser::next, oldest first (a bounded log)
    last,       \* the item yielded by the most recent Parser::next call
    ncalls,     \* number of Parser::next calls made, modulo 2
    wrapped,    \* TRUE when the parser is owned by a Prefix filter
    reference,  \* Prefix.reference
    path,       \* Prefix.path
    fout,       \* items yielded by Prefix::next, oldest first (a bounded log)
    flast,      \* the item yielded by the most recent Prefix::next call
    built,      \* TRUE when the consumer reads Values through Builder::items
    values,     \* the results Items::next has returned, oldest first
    taken,      \* the filtered items the most recent Items::next call consumed
    source,     \* the bytes of the input the byte-level lexer is run over
    lexer,      \* struct Lexer: [buf, tmp, len, pos, f]
    lexed       \* the results Lexer::next has returned, oldest first

\* the parser, the filter and the builder
pvars == <<state, stack, peeked, input, eof, budget, script, doc, tail, failed,
           panicked, out, last, ncalls, wrapped, reference, path, fout, flast,
           built, values, taken>>

\* the byte-level lexer
lexvars == <<source, lexer, lexed>>

vars == <<pvars, lexvars>>

---------------------------------------------------------------------------
(* Bounds *)

\* lexer items an input holds at most
MaxLen == 6
\* the same, for the inputs drained under fairness
DrainLen == 2
\* lexer items an input holds after the first one the parser rejected
MaxTail == 2
\* items the logs `out` and `fout` keep
MaxOut == 8
\* the most lexer items of an input the Prefix filter alone is run over
TrackLen == 5
\* the capacity of the lexer's buffer, and the most bytes of an input text
BUFSIZE == 8
\* the most values (scalars, arrays, objects) a generated document holds
MaxNodes == 4
MaxCalls == 3

---------------------------------------------------------------------------
(* Bytes and lexemes *)

\* the ASCII code of a character, as in the source's byte literals b'x'
Code(c) ==
    CASE c = " " -> 32 [] c = "+" -> 43 [] c = "-" -> 45
      [] c = "4" -> 52 [] c = "5" -> 53 [] c = "E" -> 69
      [] c = "\"" -> 34 [] c = "," -> 44 [] c = "." -> 46 [] c = "/" -> 47
      [] c = "0" -> 48
      [] c = "1" -> 49 [] c = "2" -> 50 [] c = "8" -> 56 [] c = "9" -> 57
      [] c = ":" -> 58 [] c = "D" -> 68 [] c = "[" -> 91 [] c = "\\" -> 92
      [] c = "]" -> 93 [] c = "a" -> 97 [] c = "b" -> 98 [] c = "c" -> 99
      [] c = "d" -> 100 [] c = "g" -> 103 [] c = "k" -> 107 [] c = "o" -> 111
      [] c = "v" -> 118 [] c = "y" -> 121
      [] c = "e" -> 101 [] c = "f" -> 102 [] c = "i" -> 105 [] c = "l" -> 108
      [] c = "m" -> 109 [] c = "n" -> 110 [] c = "r" -> 114 [] c = "s" -> 115
      [] c = "t" -> 116 [] c = "u" -> 117 [] c = "w" -> 119 [] c = "x" -> 120
      [] c = "{" -> 123 [] c = "}" -> 125

\* a byte string literal b"..."
Lit(s) == [i \in 1..Len(s) |-> Code(s[i])]

OBracket == Lit(<<"[">>)
CBracket == Lit(<<"]">>)
OBrace == Lit(<<"{">>)
CBrace == Lit(<<"}">>)
CommaLx == Lit(<<",">>)
ColonLx == Lit(<<":">>)
NullLx == Lit(<<"n", "u", "l", "l">>)
TrueLx == Lit(<<"t", "r", "u", "e">>)
FalseLx == Lit(<<"f", "a", "l", "s", "e">>)
NumLx == Lit(<<"1">>)
StrLx == Lit(<<"\"", "a", "\"">>)
JunkLx == Lit(<<"x">>)

\* the lexemes the modelled lexer delivers
Lexemes == {OBracket, CBracket, OBrace, CBrace, CommaLx, ColonLx,
            NullLx, NumLx, StrLx, JunkLx}

\* Option<Result<Vec<u8>>> as the lexer yields it
LexOk(v) == [tag |-> "Ok", v |-> v]
LexErr == [tag |-> "Err", v |-> <<>>]
LexNone == [tag |-> "None", v |-> <<>>]
NoPeek == [tag |-> "NoPeek", v |-> <<>>]

LexItems == {LexOk(v) : v \in Lexemes} \cup {LexErr}

---------------------------------------------------------------------------
(* Items yielded by the iterators: Option<Result<Event>>.  v is the text   *)
(* an event or error carries (code points), n the number of a Number, or   *)
(* 1/0 for Boolean(true/false).                                            *)

Ev(e, v, n) == [t |-> "Ok", e |-> e, v |-> v, n |-> n]
Err(e, v) == [t |-> "Err", e |-> e, v |-> v, n |-> 0]
None == [t |-> "None", e |-> "", v |-> <<>>, n |-> 0]
Panic(msg) == [t |-> "Panic", e |-> msg, v |-> <<>>, n |-> 0]
\* no call made yet
NoItem == [t |-> "NoItem", e |-> "", v |-> <<>>, n |-> 0]

\* Result<T> inside the parser: Ok(v) or Err(item)
ROk(v) == [ok |-> TRUE, v |-> v, n |-> 0, err |-> NoItem]
ROkN(n) == [ok |-> TRUE, v |-> <<>>, n |-> n, err |-> NoItem]
RErr(e) == [ok |-> FALSE, v |-> <<>>, n |-> 0, err |-> e]

---------------------------------------------------------------------------
(* Pure helpers of parser.rs *)

unexpected(lexeme) == Err("unexpected lexeme", lexeme)

trim(lexeme) == SubSeq(lexeme, 2, Len(lexeme) - 1)

\* str::from_utf8: the model's bytes are ASCII, except 255, which no UTF-8
\* text holds
from_utf8(bytes) ==
    IF \A i \in 1..Len(bytes) : bytes[i] < 128
    THEN ROk(bytes) ELSE RErr(Err("utf8", <<>>))

\* char::to_digit(16)
to_digit16(c) ==
    IF c >= 48 /\ c <= 57 THEN c - 48
    ELSE IF c >= 97 /\ c <= 102 THEN c - 87
    ELSE IF c >= 65 /\ c <= 70 THEN c - 55
    ELSE -1

\* char::from_u32: no char for a surrogate or beyond 0x10FFFF
from_u32(value) ==
    IF (value >= 55296 /\ value <= 57343) \/ value > 1114111
    THEN RErr(NoItem) ELSE ROkN(value)

RECURSIVE hexdecode_loop(_, _, _)
hexdecode_loop(s, i, value) ==
    IF i > Len(s) THEN from_u32(value)
    ELSE IF to_digit16(s[i]) < 0 THEN RErr(NoItem)
    ELSE hexdecode_loop(s, i + 1, value * 16 + to_digit16(s[i]))

hexdecode(s) == hexdecode_loop(s, 1, 0)

\* the end of the run of bytes other than '\' that starts at `pos` (1-based)
RECURSIVE skip_plain(_, _)
skip_plain(lexeme, pos) ==
    IF pos <= Len(lexeme) /\ lexeme[pos] # 92
    THEN skip_plain(lexeme, pos + 1) ELSE pos

\* one simple escape: the char it stands for, or -1
simple_escape(c) ==
    CASE c = 98 -> 8 [] c = 102 -> 12 [] c = 110 -> 10 [] c = 114 -> 13
      [] c = 116 -> 9 [] c = 34 -> 34 [] c = 92 -> 92 [] OTHER -> -1

\* positions are 1-based here: Rust's pos is `pos - 1`
RECURSIVE unescape_loop(_, _, _)
unescape_loop(lexeme, pos, result) ==
    LET len == Len(lexeme) IN
    IF pos > len THEN ROk(result)
    ELSE
      LET stop == skip_plain(lexeme, pos)
          plain == from_utf8(SubSeq(lexeme, pos, stop - 1))
          esc == stop + 1
      IN
      IF ~plain.ok THEN plain
      ELSE IF stop > len THEN ROk(result \o plain.v)
      ELSE IF esc > len THEN RErr(Panic("index out of bounds"))
      ELSE IF lexeme[esc] = 117 THEN
        IF (esc - 1) + 4 >= len
        THEN RErr(Err("malformed escape", SubSeq(lexeme, esc, len)))
        ELSE
          LET s == SubSeq(lexeme, esc + 1, esc + 4)
              ch == hexdecode(s)
          IN IF ~ch.ok THEN RErr(Err("malformed escape", s))
             ELSE unescape_loop(lexeme, esc + 5, result \o plain.v \o <<ch.n>>)
      ELSE IF simple_escape(lexeme[esc]) < 0
        THEN RErr(Err("malformed escape", <<lexeme[esc]>>))
      ELSE unescape_loop(lexeme, esc + 1,
                         result \o plain.v \o <<simple_escape(lexeme[esc])>>)

unescape(lexeme) == unescape_loop(lexeme, 1, <<>>)

\* str::parse::<f64> on the lexemes of the model: a run of decimal digits
\* is its value; every other lexeme of the model's alphabet fails to parse
RECURSIVE parse_digits(_, _, _)
parse_digits(s, i, acc) ==
    IF i > Len(s) THEN acc
    ELSE parse_digits(s, i + 1, acc * 10 + (s[i] - 48))

parse_f64(s) ==
    IF Len(s) > 0 /\ \A i \in 1..Len(s) : s[i] >= 48 /\ s[i] <= 57
    THEN ROkN(parse_digits(s, 1, 0)) ELSE RErr(NoItem)

process_event(lexeme) ==
    IF lexeme = NullLx THEN Ev("Null", <<>>, 0)
    ELSE IF lexeme = TrueLx THEN Ev("Boolean", <<>>, 1)
    ELSE IF lexeme = FalseLx THEN Ev("Boolean", <<>>, 0)
    ELSE IF lexeme = OBracket THEN Ev("StartArray", <<>>, 0)
    ELSE IF lexeme = OBrace THEN Ev("StartMap", <<>>, 0)
    ELSE IF lexeme = CBracket THEN Ev("EndArray", <<>>, 0)
    ELSE IF lexeme = CBrace THEN Ev("EndMap", <<>>, 0)
    ELSE IF lexeme[1] = 34 THEN
        LET u == unescape(trim(lexeme)) IN
        IF u.ok THEN Ev("String", u.v, 0) ELSE u.err
    ELSE
        LET s == from_utf8(lexeme) IN
        IF ~s.ok THEN s.err
        ELSE LET f == parse_f64(s.v) IN
             IF f.ok THEN Ev("Number", <<>>, f.n) ELSE unexpected(lexeme)

---------------------------------------------------------------------------
(* The lexer behind the parser, and std's Peekable around it.  A parser    *)
(* configuration p is the record of the variables state, stack, peeked,    *)
(* input, eof, budget, script, tail and failed.                            *)

\* the lexer may still deliver an item: the bounds of the explored inputs
CanDeliver(p) ==
    /\ p.budget > 0
    /\ p.failed => p.tail < MaxTail

\* no script: the input is whatever the lexer turns out to deliver
NoScript == [on |-> FALSE, rest |-> <<>>]

\* Lexer::next as the parser sees it: any item, or None for good at the end;
\* over a scripted input, the lexemes of the script in order, then None
Pull(p) ==
    IF p.eof THEN {[item |-> LexNone, p |-> p]}
    ELSE IF p.script.on THEN
        IF p.script.rest = <<>>
        THEN {[item |-> LexNone, p |-> [p EXCEPT !.eof = TRUE]]}
        ELSE {[item |-> LexOk(Head(p.script.rest)),
               p |-> [p EXCEPT !.input = Append(@, LexOk(Head(p.script.rest))),
                               !.script.rest = Tail(@)]]}
    ELSE {[item |-> LexNone, p |-> [p EXCEPT !.eof = TRUE]]}
         \cup (IF CanDeliver(p)
               THEN {[item |-> it,
                      p |-> [p EXCEPT !.input = Append(@, it),
                                      !.budget = @ - 1,
                                      !.tail = IF p.failed THEN @ + 1 ELSE @]]
                     : it \in LexItems}
               ELSE {})

\* Peekable::peek
Peekable_peek(p) ==
    IF p.peeked # NoPeek THEN {[item |-> p.peeked, p |-> p]}
    ELSE {[item |-> r.item,
           p |-> [r.p EXCEPT !.peeked = IF r.item = LexNone THEN NoPeek
                                         ELSE r.item]] : r \in Pull(p)}

\* Peekable::next
Peekable_next(p) ==
    IF p.peeked # NoPeek
    THEN {[item |-> p.peeked, p |-> [p EXCEPT !.peeked = NoPeek]]}
    ELSE Pull(p)

---------------------------------------------------------------------------
(* Parser *)

StClosed == [name |-> "Closed", can_close |-> FALSE]
StEvent(can_close) == [name |-> "Event", can_close |-> can_close]
StKey(can_close) == [name |-> "Key", can_close |-> can_close]
StColon == [name |-> "Colon", can_close |-> FALSE]
StComma == [name |-> "Comma", can_close |-> FALSE]

\* consume_lexeme with the end of the input taken for a lexer error
consume_lexeme_NoneAsLexer(p) ==
    {[r |-> IF x.item.tag # "Ok" THEN RErr(Err("lexer error", <<>>))
            ELSE ROk(x.item.v),
      p |-> x.p] : x \in Peekable_next(p)}

\* Parser::consume_lexeme: the outcomes [r, p], r a Result<Vec<u8>>
consume_lexeme(p) ==
    {[r |-> IF x.item = LexNone THEN RErr(Err("more lexemes expected", <<>>))
            ELSE IF x.item.tag = "Err" THEN RErr(Err("lexer error", <<>>))
            ELSE ROk(x.item.v),
      p |-> x.p] : x \in Peekable_next(p)}

\* Parser::check_lexeme: the outcomes [b, p]
check_lexeme(p, lexemes) ==
    {[b |-> x.item.tag = "Ok" /\ x.item.v \in lexemes, p |-> x.p]
     : x \in Peekable_peek(p)}

\* Vec::pop: the stack without its last element (an empty one stays empty)
Popped(stk) == IF Len(stk) = 0 THEN stk ELSE SubSeq(stk, 1, Len(stk) - 1)

\* the opener a closing lexeme expects on top of the stack
Expected(lexeme) == IF lexeme[1] = 93 THEN 91 ELSE 123

\* the stack.pop() test without the comparison to `expected`
PopMatches_AnyOpener(stk, lexeme) == Len(stk) > 0

\* State::Event, the stack.pop() test: the closer matches the top of stack
PopMatches(stk, lexeme) ==
    Len(stk) > 0 /\ stk[Len(stk)] = Expected(lexeme)

\* the state update without its first branch, stack.len() == 0
EventNextState_NoClosed(stk, lexeme) ==
    IF lexeme = OBracket THEN StEvent(TRUE)
    ELSE IF lexeme = OBrace THEN StKey(TRUE)
    ELSE StComma

\* State::Event, the state assigned once the lexeme is accepted
EventNextState(stk, lexeme) ==
    IF Len(stk) = 0 THEN StClosed
    ELSE IF lexeme = OBracket THEN StEvent(TRUE)
    ELSE IF lexeme = OBrace THEN StKey(TRUE)
    ELSE StComma

\* State::Closed
ClosedStep(p) ==
    {[res |-> IF x.item = LexNone THEN None ELSE Panic("Additional data"),
      p |-> x.p] : x \in Peekable_peek(p)}

\* State::Event(can_close), given the outcome c of consume_lexeme
EventOn(c, can_close) ==
    LET q == c.p
        lexeme == c.r.v
    IN
    IF ~c.r.ok THEN [res |-> c.r.err, p |-> q]
    ELSE IF lexeme \in {CBracket, CBrace} /\ ~can_close
      THEN [res |-> unexpected(lexeme), p |-> q]
    ELSE IF lexeme \in {CBracket, CBrace} /\ ~PopMatches(q.stack, lexeme)
      THEN [res |-> Err("unmatched container terminator", lexeme),
            p |-> [q EXCEPT !.stack = Popped(@)]]
    ELSE
      LET stk == IF lexeme \in {OBracket, OBrace}
                   THEN Append(q.stack, lexeme[1])
                 ELSE IF lexeme \in {CBracket, CBrace} THEN Popped(q.stack)
                 ELSE q.stack
      IN [res |-> process_event(lexeme),
          p |-> [q EXCEPT !.stack = stk,
                          !.state = EventNextState(stk, lexeme)]]

\* State::Event with a peek at the next lexeme before it returns
EventStep_PeekAhead(p) ==
    UNION {{[res |-> EventOn(c, p.state.can_close).res, p |-> k.p]
            : k \in Peekable_peek(EventOn(c, p.state.can_close).p)}
           : c \in consume_lexeme(p)}

EventStep(p) == {EventOn(c, p.state.can_close) : c \in consume_lexeme(p)}

\* State::Key, after check_lexeme came back false: [res, p], res = NoItem
\* never; the Key event, or the error
KeyOn(c) ==
    IF ~c.r.ok THEN [res |-> c.r.err, p |-> c.p]
    ELSE IF c.r.v[1] # 34 THEN [res |-> unexpected(c.r.v), p |-> c.p]
    ELSE LET s == from_utf8(trim(c.r.v)) IN
         [res |-> IF s.ok THEN Ev("Key", s.v, 0) ELSE s.err,
          p |-> [c.p EXCEPT !.state = StColon]]

\* the state after the ',' with the two branches swapped
AfterComma_Swapped(stk) ==
    IF stk[Len(stk)] = 91 THEN StKey(FALSE) ELSE StEvent(FALSE)

\* State::Comma, the state after the ',': by the innermost open container
AfterComma(stk) == IF stk[Len(stk)] = 91 THEN StEvent(FALSE) ELSE StKey(FALSE)

\* Parser::next: the outcomes [res, p] of one call
RECURSIVE Parser_next(_)
Parser_next(p) ==
    CASE p.state.name = "Closed" -> ClosedStep(p)
      [] p.state.name = "Event" -> EventStep(p)
      [] p.state.name = "Key" ->
           UNION {
             IF k.b THEN
               IF ~p.state.can_close
               THEN {[res |-> unexpected(CBrace), p |-> k.p]}
               ELSE Parser_next([k.p EXCEPT !.state = StEvent(TRUE)])
             ELSE {KeyOn(c) : c \in consume_lexeme(k.p)}
             : k \in check_lexeme(p, {CBrace})}
      [] p.state.name = "Colon" ->
           UNION {
             IF ~c.r.ok THEN {[res |-> c.r.err, p |-> c.p]}
             ELSE IF c.r.v # ColonLx THEN {[res |-> unexpected(c.r.v), p |-> c.p]}
             ELSE Parser_next([c.p EXCEPT !.state = StEvent(FALSE)])
             : c \in consume_lexeme(p)}
      [] p.state.name = "Comma" ->
           UNION {
             IF k.b THEN Parser_next([k.p EXCEPT !.state = StEvent(TRUE)])
             ELSE UNION {
               IF ~c.r.ok THEN {[res |-> c.r.err, p |-> c.p]}
               ELSE IF c.r.v # CommaLx
                 THEN {[res |-> unexpected(c.r.v), p |-> c.p]}
               ELSE IF Len(c.p.stack) = 0
                 THEN {[res |-> Panic("index out of bounds"), p |-> c.p]}
               ELSE Parser_next([c.p EXCEPT !.state = AfterComma(c.p.stack)])
               : c \in consume_lexeme(k.p)}
             : k \in check_lexeme(p, {CBracket, CBrace})}

---------------------------------------------------------------------------
(* Prefix filter (builder.rs) *)

\* str::split_terminator("."): the pieces between the dots, without the
\* empty piece a trailing dot (or the empty string) would leave at the end
RECURSIVE split_dots(_, _, _)
split_dots(s, i, piece) ==
    IF i > Len(s) THEN <<piece>>
    ELSE IF s[i] = 46 THEN <<piece>> \o split_dots(s, i + 1, <<>>)
    ELSE split_dots(s, i + 1, Append(piece, s[i]))

split_terminator(s) ==
    LET pieces == split_dots(s, 1, <<>>) IN
    IF pieces[Len(pieces)] = <<>> THEN SubSeq(pieces, 1, Len(pieces) - 1)
    ELSE pieces

\* Builder::prefix: the reference path of a prefix string
Builder_prefix(prefix) == split_terminator(prefix)

\* equality where a prefix test is meant
starts_with_Equal(p, r) == p = r

\* slice::starts_with
starts_with(p, r) == Len(r) <= Len(p) /\ SubSeq(p, 1, Len(r)) = r

\* only a Key pops
PathPopped_KeyOnly(p, event) ==
    IF event.e = "Key" THEN Popped(p) ELSE p

\* Prefix::next, the first match: Key, EndMap and EndArray pop a segment
PathPopped(p, event) ==
    IF event.e \in {"Key", "EndMap", "EndArray"} THEN Popped(p) ELSE p

\* StartMap pushes no placeholder for the key to come
PathPushed_NoPlaceholder(p, event) ==
    IF event.e = "Key" THEN Append(p, event.v)
    ELSE IF event.e = "StartArray" THEN Append(p, Lit(<<"i", "t", "e", "m">>))
    ELSE p

\* Prefix::next, the second match: Key, StartMap and StartArray push one
PathPushed(p, event) ==
    IF event.e = "Key" THEN Append(p, event.v)
    ELSE IF event.e = "StartMap" THEN Append(p, <<>>)
    ELSE IF event.e = "StartArray" THEN Append(p, Lit(<<"i", "t", "e", "m">>))
    ELSE p

\* the test made after the push instead of before it
Found_AfterPush(p, ref, event) ==
    starts_with(PathPushed(PathPopped(p, event), event), ref)

\* Prefix::next, `found`
Found(p, ref, event) == starts_with(PathPopped(p, event), ref)

\* an item that is no event, returned after the pop of an End event
Prefix_itry_Popped(x, pth, seen) ==
    [res |-> x.res, p |-> x.p,
     path |-> IF pth = <<>> THEN pth ELSE SubSeq(pth, 1, Len(pth) - 1),
     seen |-> Append(seen, x.res)]

\* Prefix::next on an item of the parser that is no event: itry! returns the
\* Err (and `while let` ends on None) before the path is touched
Prefix_itry(x, pth, seen) ==
    [res |-> x.res, p |-> x.p, path |-> pth, seen |-> Append(seen, x.res)]

\* Prefix::next: the outcomes [res, p, path, seen] of one call; seen holds
\* the items the wrapped parser yielded during the call
RECURSIVE Prefix_next(_, _, _, _)
Prefix_next(p, pth, ref, seen) ==
    UNION {
      IF x.res.t # "Ok"
      THEN {Prefix_itry(x, pth, seen)}
      ELSE
        LET pth2 == PathPushed(PathPopped(pth, x.res), x.res) IN
        IF Found(pth, ref, x.res)
        THEN {[res |-> x.res, p |-> x.p, path |-> pth2,
               seen |-> Append(seen, x.res)]}
        ELSE Prefix_next(x.p, pth2, ref, Append(seen, x.res))
      : x \in Parser_next(p)}

---------------------------------------------------------------------------
(* lexer.rs: the lexer over a byte source.  A lexer L is the record of the *)
(* struct's fields [buf, tmp, len, pos, f] and of the history flag stale;  *)
(* f is the reader.  buf keeps the bytes of earlier reads beyond len, as   *)
(* the array does.                                                         *)
(* Positions are Rust's (0-based): buf[pos] is L.buf[L.pos + 1].           *)

is_whitespace(value) == value \in {9, 10, 13, 32}

\* Option<Result<Lexeme>> as Lexer::next returns it: k the variant, v the
\* bytes of a String or of an error, n and pow the number n * 10^pow of a
\* Number, n = 1/0 for Boolean(true/false); inside the lexer, Ok results of
\* the helper functions as well (k = "char" with the char in n, k = "unit")
Lx(k, v, n, pow) == [t |-> "Ok", k |-> k, v |-> v, n |-> n, pow |-> pow]
LxErr(k, v) == [t |-> "Err", k |-> k, v |-> v, n |-> 0, pow |-> 0]
LxNone == [t |-> "None", k |-> "", v |-> <<>>, n |-> 0, pow |-> 0]
LxPanic(msg) == [t |-> "Panic", k |-> msg, v |-> <<>>, n |-> 0, pow |-> 0]

\* Lexer::new
\* f is the reader: the bytes it still holds, whether each read fills the
\* buffer as far as it can, whether the read after its last byte fails
\* instead of returning 0, and whether a read has failed.  stale records
\* that a byte at or beyond len was read from buf.
Lexer_over(bytes, whole, broken) ==
    [buf |-> [i \in 1..BUFSIZE |-> 0], tmp |-> <<>>, len |-> 0, pos |-> 0,
     stale |-> FALSE,
     f |-> [rest |-> bytes, whole |-> whole, broken |-> broken,
            failed |-> FALSE]]

Lexer_new(bytes, whole) == Lexer_over(bytes, whole, FALSE)

\* the sizes Read::read may return while bytes remain
ReadSizes(L) ==
    LET most == IF Len(L.f.rest) < Len(L.buf) THEN Len(L.f.rest) ELSE Len(L.buf)
    IN IF L.f.whole THEN {most} ELSE 1..most

\* self.f.read(&mut self.buf) returning size, and the two assignments
read(L, size) ==
    [L EXCEPT !.buf = [i \in 1..Len(L.buf) |->
                          IF i <= size THEN L.f.rest[i] ELSE L.buf[i]],
              !.len = size,
              !.pos = 0,
              !.f.rest = SubSeq(L.f.rest, size + 1, Len(L.f.rest))]

\* a failed read taken for a read of 0 bytes
ensure_buffer_FailureAsEmpty(L) ==
    IF L.pos < L.len THEN {[b |-> "Within", L |-> L]}
    ELSE IF L.f.rest = <<>>
    THEN {[b |-> "Empty", L |-> [L EXCEPT !.len = 0, !.pos = 0,
                                          !.f.failed = L.f.broken]]}
    ELSE {[b |-> "Reset", L |-> read(L, size)] : size \in ReadSizes(L)}

\* Lexer::ensure_buffer: the outcomes [b, L]; b = "Err" is the io::Error of
\* a failed read, which leaves len and pos as they were
ensure_buffer(L) ==
    IF L.pos < L.len THEN {[b |-> "Within", L |-> L]}
    ELSE IF L.f.rest = <<>> /\ L.f.broken
    THEN {[b |-> "Err", L |-> [L EXCEPT !.f.failed = TRUE]]}
    ELSE IF L.f.rest = <<>>
    THEN {[b |-> "Empty", L |-> [L EXCEPT !.len = 0, !.pos = 0]]}
    ELSE {[b |-> "Reset", L |-> read(L, size)] : size \in ReadSizes(L)}

\* self.buf[self.pos], and self.pos += 1
cur(L) == L.buf[L.pos + 1]
Advance(L) == [L EXCEPT !.pos = @ + 1]

\* char::encode_utf8 (chars of the Basic Multilingual Plane)
encode_utf8(ch) ==
    IF ch < 128 THEN <<ch>>
    ELSE IF ch < 2048 THEN <<192 + (ch \div 64), 128 + (ch % 64)>>
    ELSE <<224 + (ch \div 4096), 128 + ((ch \div 64) % 64), 128 + (ch % 64)>>

\* Lexer::hexdecode, from its i-th round on (i = 0..4): the outcomes
\* [item, L]
RECURSIVE Lexer_hexdecode(_, _, _)
Lexer_hexdecode(L, i, value) ==
    IF i = 4 THEN
        IF from_u32(value).ok THEN {[item |-> Lx("char", <<>>, value, 0), L |-> L]}
        ELSE {[item |-> LxErr("Escape", <<>>), L |-> L]}
    ELSE UNION {
        IF eb.b = "Err" THEN {[item |-> LxErr("IO", <<>>), L |-> eb.L]}
        ELSE IF eb.b = "Empty" THEN {[item |-> LxErr("Escape", <<>>), L |-> eb.L]}
        ELSE IF to_digit16(cur(eb.L)) < 0
        THEN {[item |-> LxErr("Escape", <<>>), L |-> eb.L]}
        ELSE Lexer_hexdecode(Advance(eb.L), i + 1,
                             value * 16 + to_digit16(cur(eb.L)))
        : eb \in ensure_buffer(L)}

\* parse_escape's match: the char of a one-letter escape, or -1
escape_char(c) ==
    CASE c = 98 -> 8 [] c = 102 -> 12 [] c = 110 -> 10 [] c = 114 -> 13
      [] c = 116 -> 9 [] c = 34 -> 34 [] c = 92 -> 92 [] OTHER -> -1

\* Lexer::parse_escape, pos on the backslash.  After Buffer::Empty pos is
\* 0, and `self.pos - 1` in the error value overflows: a panic, as a
\* subtraction in a debug build and as a slice bound in a release build
parse_escape(L) ==
    UNION {
      IF eb.b = "Err" THEN {[item |-> LxErr("IO", <<>>), L |-> eb.L]}
      ELSE IF eb.b = "Empty"
      THEN {[item |-> LxPanic("attempt to subtract with overflow"), L |-> eb.L]}
      ELSE LET escape == cur(eb.L) IN
           IF escape = 117 THEN Lexer_hexdecode(Advance(eb.L), 0, 0)
           ELSE IF escape_char(escape) >= 0
           THEN {[item |-> Lx("char", <<>>, escape_char(escape), 0),
                  L |-> Advance(eb.L)]}
           ELSE {[item |-> LxErr("Escape", <<escape>>), L |-> Advance(eb.L)]}
      : eb \in ensure_buffer(Advance(L))}

\* consume_string's inner while: pos moved to the next quote or backslash,
\* or to len
RECURSIVE string_scan(_)
string_scan(L) ==
    IF L.pos < L.len /\ cur(L) # 34 /\ cur(L) # 92
    THEN string_scan(Advance(L)) ELSE L

\* &self.buf[start..pos]
Slice(L, start) == SubSeq(L.buf, start + 1, L.pos)

\* str::from_utf8 on well-formed sequences of one to three bytes
RECURSIVE Utf8Valid(_)
Utf8Valid(bytes) ==
    IF bytes = <<>> THEN TRUE
    ELSE IF bytes[1] < 128 THEN Utf8Valid(Tail(bytes))
    ELSE IF bytes[1] >= 194 /\ bytes[1] < 224 THEN
        /\ Len(bytes) >= 2 /\ bytes[2] >= 128 /\ bytes[2] < 192
        /\ Utf8Valid(SubSeq(bytes, 3, Len(bytes)))
    ELSE IF bytes[1] >= 224 /\ bytes[1] < 240 THEN
        /\ Len(bytes) >= 3 /\ bytes[2] >= 128 /\ bytes[2] < 192
        /\ bytes[3] >= 128 /\ bytes[3] < 192
        /\ (bytes[1] = 224 => bytes[2] >= 160)
        /\ (bytes[1] = 237 => bytes[2] < 160)
        /\ Utf8Valid(SubSeq(bytes, 4, Len(bytes)))
    ELSE FALSE

\* consume_string, from the top of its loop: the outcomes [item, L]
RECURSIVE string_loop(_, _)
string_loop(L, in_tmp) ==
    LET start == L.pos
        S == string_scan(L)
        push == S.pos >= S.len \/ cur(S) = 92
        T == IF push
             THEN [S EXCEPT !.tmp = (IF in_tmp THEN @ ELSE <<>>) \o Slice(S, start)]
             ELSE S
        now_tmp == in_tmp \/ push
    IN UNION {
         IF eb.b = "Err" THEN {[item |-> LxErr("IO", <<>>), L |-> eb.L]}
         ELSE IF eb.b = "Empty"
         THEN {[item |-> LxErr("Unterminated", <<>>), L |-> eb.L]}
         ELSE IF eb.b = "Within" /\ cur(eb.L) = 34 THEN
            LET U == IF now_tmp
                     THEN [eb.L EXCEPT !.tmp = @ \o Slice(eb.L, start)]
                     ELSE eb.L
                result == IF now_tmp THEN U.tmp ELSE Slice(eb.L, start)
            IN {[item |-> IF Utf8Valid(result) THEN Lx("String", result, 0, 0)
                          ELSE LxErr("Utf8", <<>>),
                 L |-> Advance(U)]}
         ELSE IF eb.b = "Within" THEN
            UNION {
              IF e.item.t # "Ok" THEN {e}
              ELSE string_loop([e.L EXCEPT !.tmp = @ \o encode_utf8(e.item.n)],
                               now_tmp)
              : e \in parse_escape(eb.L)}
         ELSE string_loop(eb.L, now_tmp)
         : eb \in ensure_buffer(T)}

\* Lexer::consume_string, pos on the opening quote
consume_string(L) == string_loop(Advance(L), FALSE)

\* Lexer::check_word, from the i-th byte of `expected` on
RECURSIVE check_word(_, _, _)
check_word(L, expected, i) ==
    IF i > Len(expected) THEN {[item |-> Lx("unit", <<>>, 0, 0), L |-> L]}
    ELSE UNION {
        IF eb.b = "Err" THEN {[item |-> LxErr("IO", <<>>), L |-> eb.L]}
        ELSE IF eb.b = "Empty" THEN {[item |-> LxErr("Unknown", <<>>), L |-> eb.L]}
        ELSE IF cur(eb.L) # expected[i]
        THEN {[item |-> LxErr("Unknown", <<cur(eb.L)>>), L |-> eb.L]}
        ELSE check_word(Advance(eb.L), expected, i + 1)
        : eb \in ensure_buffer(L)}

\* Lexer::consume_sign: [panic, sign, L].  It reads buf[pos] as it is: a
\* byte of an earlier read when pos = len, out of bounds when pos = BUFSIZE
consume_sign(L) ==
    LET M == [L EXCEPT !.stale = @ \/ L.pos >= L.len] IN
    IF L.pos >= Len(L.buf) THEN [panic |-> TRUE, sign |-> TRUE, L |-> M]
    ELSE IF cur(L) = 45 THEN [panic |-> FALSE, sign |-> FALSE, L |-> Advance(M)]
    ELSE IF cur(L) = 43 THEN [panic |-> FALSE, sign |-> TRUE, L |-> Advance(M)]
    ELSE [panic |-> FALSE, sign |-> TRUE, L |-> M]

\* Lexer::consume_int: the outcomes [L, acc, count, err], err for the
\* io::Error that `?` returns
RECURSIVE consume_int(_, _, _)
consume_int(L, acc, count) ==
    UNION {
      IF eb.b = "Err"
      THEN {[L |-> eb.L, acc |-> acc, count |-> count, err |-> TRUE]}
      ELSE IF eb.b = "Empty"
      THEN {[L |-> eb.L, acc |-> acc, count |-> count, err |-> FALSE]}
      ELSE IF cur(eb.L) >= 48 /\ cur(eb.L) <= 57
      THEN consume_int(Advance(eb.L), acc * 10 + (cur(eb.L) - 48), count + 1)
      ELSE {[L |-> eb.L, acc |-> acc, count |-> count, err |-> FALSE]}
      : eb \in ensure_buffer(L)}

\* the f64 int * 10^pow, written with an int that does not end in 0
RECURSIVE F64(_, _)
F64(int, pow) ==
    IF int = 0 THEN Lx("Number", <<>>, 0, 0)
    ELSE IF int % 10 = 0 THEN F64(int \div 10, pow + 1)
    ELSE Lx("Number", <<>>, int, pow)

\* consume_number, the exponent part and the result
number_exponent(L, sign, int, pow) ==
    LET signed == IF sign THEN int ELSE 0 - int IN
    IF L.pos < L.len /\ (cur(L) = 69 \/ cur(L) = 101) THEN
        LET s == consume_sign(Advance(L)) IN
        IF s.panic THEN {[item |-> LxPanic("index out of bounds"), L |-> s.L]}
        ELSE UNION {
            IF c.err THEN {[item |-> LxErr("IO", <<>>), L |-> c.L]}
            ELSE IF c.count = 0
            THEN {[item |-> LxErr("Unknown", <<>>), L |-> c.L]}
            ELSE {[item |-> F64(signed, pow + (IF s.sign THEN c.acc ELSE 0 - c.acc)),
                   L |-> c.L]}
            : c \in consume_int(s.L, 0, 0)}
    ELSE {[item |-> F64(signed, pow), L |-> L]}

\* Lexer::consume_number
consume_number(L) ==
    LET s == consume_sign(L) IN
    UNION {
      IF a.err THEN {[item |-> LxErr("IO", <<>>), L |-> a.L]}
      ELSE IF a.count = 0 /\ (a.L.pos >= a.L.len \/ cur(a.L) # 46)
      THEN {[item |-> LxErr("Unknown", <<>>), L |-> a.L]}
      ELSE IF a.L.pos < a.L.len /\ cur(a.L) = 46 THEN
        UNION {IF b.err THEN {[item |-> LxErr("IO", <<>>), L |-> b.L]}
               ELSE number_exponent(b.L, s.sign, b.acc, 0 - b.count)
               : b \in consume_int(Advance(a.L), a.acc, 0)}
      ELSE number_exponent(a.L, s.sign, a.acc, 0)
      : a \in consume_int(s.L, 0, 0)}

\* a word checked, then its lexeme
Word(L, expected, lexeme) ==
    {IF w.item.t = "Ok" THEN [item |-> lexeme, L |-> w.L] ELSE w
     : w \in check_word(L, expected, 1)}

\* Lexer::next, the match on the byte at pos
Lexer_match(L) ==
    LET byte == cur(L) IN
    IF byte = 34 THEN consume_string(L)
    ELSE IF byte = 116 THEN Word(L, Lit(<<"t", "r", "u", "e">>), Lx("Boolean", <<>>, 1, 0))
    ELSE IF byte = 102
    THEN Word(L, Lit(<<"f", "a", "l", "s", "e">>), Lx("Boolean", <<>>, 0, 0))
    ELSE IF byte = 110 THEN Word(L, Lit(<<"n", "u", "l", "l">>), Lx("Null", <<>>, 0, 0))
    ELSE IF byte \in {43, 45, 46} \/ (byte >= 48 /\ byte <= 57)
    THEN consume_number(L)
    ELSE {[item |-> CASE byte = 123 -> Lx("OBrace", <<>>, 0, 0)
                      [] byte = 125 -> Lx("CBrace", <<>>, 0, 0)
                      [] byte = 91 -> Lx("OBracket", <<>>, 0, 0)
                      [] byte = 93 -> Lx("CBracket", <<>>, 0, 0)
                      [] byte = 44 -> Lx("Comma", <<>>, 0, 0)
                      [] byte = 58 -> Lx("Colon", <<>>, 0, 0)
                      [] OTHER -> LxErr("Unknown", <<byte>>),
           L |-> Advance(L)]}

\* Lexer::next: the outcomes [item, L] of one call
RECURSIVE Lexer_next(_)
Lexer_next(L) ==
    UNION {
      IF eb.b = "Err" THEN {[item |-> LxErr("IO", <<>>), L |-> eb.L]}
      ELSE IF eb.b = "Empty" THEN {[item |-> LxNone, L |-> eb.L]}
      ELSE IF is_whitespace(cur(eb.L)) THEN Lexer_next(Advance(eb.L))
      ELSE Lexer_match(eb.L)
      : eb \in ensure_buffer(L)}

---------------------------------------------------------------------------
(* builder.rs, Items: Values built from the filtered events.  A Json is a  *)
(* record [k, v, n, items, m]: items the elements of an Array, m the       *)
(* BTreeMap of an Object, a function from its keys.                        *)

EmptyMap == [x \in {} |-> x]

Json_Null == [k |-> "Null", v |-> <<>>, n |-> 0, items |-> <<>>, m |-> EmptyMap]
Json_Boolean(b) ==
    [k |-> "Boolean", v |-> <<>>, n |-> b, items |-> <<>>, m |-> EmptyMap]
Json_String(v) ==
    [k |-> "String", v |-> v, n |-> 0, items |-> <<>>, m |-> EmptyMap]
Json_F64(n) == [k |-> "F64", v |-> <<>>, n |-> n, items |-> <<>>, m |-> EmptyMap]
Json_Array(items) ==
    [k |-> "Array", v |-> <<>>, n |-> 0, items |-> items, m |-> EmptyMap]
Json_Object(m) == [k |-> "Object", v |-> <<>>, n |-> 0, items |-> <<>>, m |-> m]
NoJson == [k |-> "", v |-> <<>>, n |-> 0, items |-> <<>>, m |-> EmptyMap]

\* Option<Result<Json>> as Items::next returns it
SomeOk(json) == [t |-> "Ok", val |-> json, err |-> NoItem]
SomeErr(err) == [t |-> "Err", val |-> NoJson, err |-> err]
NoneValue == [t |-> "None", val |-> NoJson, err |-> NoItem]
Panicked(msg) == [t |-> "Panic", val |-> NoJson, err |-> Panic(msg)]

\* the first insertion of a key stays
insert_KeepFirst(object, k, value) ==
    [x \in DOMAIN object \cup {k} |->
        IF x \in DOMAIN object THEN object[x] ELSE value]

\* BTreeMap::insert
insert(object, k, value) ==
    [x \in DOMAIN object \cup {k} |-> IF x = k THEN value ELSE object[x]]

\* an array's Start event taken for a scalar
Items_arm_FlatArray(event) ==
    CASE event.e \in {"EndMap", "EndArray"} -> "End"
      [] event.e = "StartMap" -> "StartMap"
      [] event.e = "Key" -> "Key"
      [] OTHER -> "Scalar"

\* Items::next: the arm of the match an event takes
Items_arm(event) ==
    CASE event.e \in {"EndMap", "EndArray"} -> "End"
      [] event.e = "StartMap" -> "StartMap"
      [] event.e = "StartArray" -> "StartArray"
      [] event.e = "Key" -> "Key"
      [] OTHER -> "Scalar"

\* Items::next: the Json of a scalar event
Items_scalar(event) ==
    CASE event.e = "Boolean" -> Json_Boolean(event.n)
      [] event.e = "String" -> Json_String(event.v)
      [] event.e = "Number" -> Json_F64(event.n)
      [] OTHER -> Json_Null

\* self.events.next(): one call of the Prefix filter Items owns; a cursor c
\* is [p, path, seen, taken]: the parser and the path of the filter, the
\* parser's items seen and the filter's items taken during the Items call
Events_next(c, ref) ==
    {[res |-> y.res,
      c |-> [p |-> y.p, path |-> y.path, seen |-> c.seen \o y.seen,
             taken |-> Append(c.taken, y.res)]] :
     y \in Prefix_next(c.p, c.path, ref, <<>>)}

\* Items::next: the outcomes [res, c] of one call; Items_object and
\* Items_array are its two loops, with the object or array built so far
RECURSIVE Items_next(_, _), Items_object(_, _, _), Items_array(_, _, _)
Items_next(c, ref) ==
    UNION {
      IF x.res.t = "None" THEN {[res |-> NoneValue, c |-> x.c]}
      ELSE IF x.res.t = "Err" THEN {[res |-> SomeErr(x.res), c |-> x.c]}
      ELSE IF x.res.t = "Panic" THEN {[res |-> Panicked(x.res.e), c |-> x.c]}
      ELSE
        LET arm == Items_arm(x.res) IN
        IF arm = "End" THEN {[res |-> NoneValue, c |-> x.c]}
        ELSE IF arm = "StartMap" THEN Items_object(x.c, ref, EmptyMap)
        ELSE IF arm = "StartArray" THEN Items_array(x.c, ref, <<>>)
        ELSE IF arm = "Key"
        THEN {[res |-> Panicked("Unexpected Key event"), c |-> x.c]}
        ELSE {[res |-> SomeOk(Items_scalar(x.res)), c |-> x.c]}
      : x \in Events_next(c, ref)}

Items_object(c, ref, object) ==
    UNION {
      IF x.res.t = "None" THEN {[res |-> SomeOk(Json_Object(object)), c |-> x.c]}
      ELSE IF x.res.t = "Err" THEN {[res |-> SomeErr(x.res), c |-> x.c]}
      ELSE IF x.res.t = "Panic" THEN {[res |-> Panicked(x.res.e), c |-> x.c]}
      ELSE IF x.res.e = "EndMap"
      THEN {[res |-> SomeOk(Json_Object(object)), c |-> x.c]}
      ELSE IF x.res.e = "Key" THEN
        UNION {
          IF y.res.t = "None"
          THEN {[res |-> Panicked("Expected more events after a Key event"),
                 c |-> y.c]}
          ELSE IF y.res.t # "Ok" THEN {y}
          ELSE Items_object(y.c, ref, insert(object, x.res.v, y.res.val))
          : y \in Items_next(x.c, ref)}
      ELSE {[res |-> Panicked("unreachable"), c |-> x.c]}
      : x \in Events_next(c, ref)}

Items_array(c, ref, array) ==
    UNION {
      IF y.res.t = "None" THEN {[res |-> SomeOk(Json_Array(array)), c |-> y.c]}
      ELSE IF y.res.t # "Ok" THEN {y}
      ELSE Items_array(y.c, ref, Append(array, y.res.val))
      : y \in Items_next(c, ref)}

---------------------------------------------------------------------------
(* Documents: JSON values, and the text (lexemes) that denotes them.  A    *)
(* value is a record [k, v, n, keys, kids]: k its kind, v the text of a    *)
(* String, n the number of a Number or 1/0 of a Boolean, kids the elements *)
(* or member values in document order, keys the member names.              *)

JNull == [k |-> "Null", v |-> <<>>, n |-> 0, keys |-> <<>>, kids |-> <<>>]
JBoolean(b) == [k |-> "Boolean", v |-> <<>>, n |-> b, keys |-> <<>>, kids |-> <<>>]
JNumber(n) == [k |-> "Number", v |-> <<>>, n |-> n, keys |-> <<>>, kids |-> <<>>]
JString(v) == [k |-> "String", v |-> v, n |-> 0, keys |-> <<>>, kids |-> <<>>]
JArray(kids) == [k |-> "Array", v |-> <<>>, n |-> 0, keys |-> <<>>, kids |-> kids]
JObject(keys, kids) ==
    [k |-> "Object", v |-> <<>>, n |-> 0, keys |-> keys, kids |-> kids]

\* no document: the input is not scripted
NoDoc == [k |-> "None", v |-> <<>>, n |-> 0, keys |-> <<>>, kids |-> <<>>]

\* the decimal digits of a natural number
RECURSIVE Digits(_)
Digits(n) == IF n < 10 THEN <<48 + n>> ELSE Append(Digits(n \div 10), 48 + (n % 10))

\* a string lexeme: the text between quotes (the model's texts need no escape)
Quoted(text) == <<34>> \o text \o <<34>>

\* the lexemes of a document, as the lexer delivers them
RECURSIVE Doc_lexemes(_), Kids_lexemes(_, _)
Doc_lexemes(t) ==
    CASE t.k = "Null" -> <<NullLx>>
      [] t.k = "Boolean" -> <<IF t.n = 1 THEN TrueLx ELSE FalseLx>>
      [] t.k = "Number" -> <<Digits(t.n)>>
      [] t.k = "String" -> <<Quoted(t.v)>>
      [] t.k = "Array" -> <<OBracket>> \o Kids_lexemes(t, 1) \o <<CBracket>>
      [] t.k = "Object" -> <<OBrace>> \o Kids_lexemes(t, 1) \o <<CBrace>>

Kids_lexemes(t, i) ==
    IF i > Len(t.kids) THEN <<>>
    ELSE (IF i > 1 THEN <<CommaLx>> ELSE <<>>)
         \o (IF t.k = "Object" THEN <<Quoted(t.keys[i]), ColonLx>> ELSE <<>>)
         \o Doc_lexemes(t.kids[i])
         \o Kids_lexemes(t, i + 1)

\* the scalars and member names of the generated documents
DocScalars == {JNumber(1), JString(Lit(<<"a">>))}
DocKeys == {Lit(<<"a">>), Lit(<<"b">>)}

\* the documents of exactly n values, and the sequences of documents that
\* hold m values in all
RECURSIVE DocsOfSize(_), Forests(_)
DocsOfSize(n) ==
    (IF n = 1 THEN DocScalars ELSE {})
    \cup {JArray(f) : f \in Forests(n - 1)}
    \cup UNION {{JObject(ks, f) : ks \in [1..Len(f) -> DocKeys]} :
                f \in Forests(n - 1)}

Forests(m) ==
    IF m = 0 THEN {<<>>}
    ELSE UNION {{<<t>> \o f : t \in DocsOfSize(j), f \in Forests(m - j)} :
                j \in 1..m}

\* test.json, the reference document of the tests (without the two members
\* of the first element whose numbers are not whole, with an ASCII string
\* and a `long` of ten digits)
RefDoc ==
    JObject(<<Lit(<<"d", "o", "c", "s">>)>>, <<JArray(<<
        JObject(<<Lit(<<"n", "u", "l", "l">>),
                  Lit(<<"b", "o", "o", "l", "e", "a", "n">>),
                  Lit(<<"t", "r", "u", "e">>),
                  Lit(<<"i", "n", "t", "e", "g", "e", "r">>),
                  Lit(<<"l", "o", "n", "g">>),
                  Lit(<<"s", "t", "r", "i", "n", "g">>)>>,
                <<JNull, JBoolean(0), JBoolean(1), JNumber(0),
                  JNumber(1000000000), JString(Lit(<<"x">>))>>),
        JObject(<<Lit(<<"m", "e", "t", "a">>)>>,
                <<JArray(<<JArray(<<JNumber(1)>>), JObject(<<>>, <<>>)>>)>>),
        JObject(<<Lit(<<"m", "e", "t", "a">>)>>,
                <<JObject(<<Lit(<<"k", "e", "y">>)>>,
                          <<JString(Lit(<<"v", "a", "l", "u", "e">>))>>)>>),
        JObject(<<Lit(<<"m", "e", "t", "a">>)>>, <<JNull>>)
    >>)>>)

\* the documents the consumers are run over
Docs == UNION {DocsOfSize(n) : n \in 1..MaxNodes} \cup {RefDoc}

\* the prefixes the filter is built with over a document
DocPrefixes ==
    {Lit(<<>>), Lit(<<"i", "t", "e", "m">>), Lit(<<"a">>),
     Lit(<<"a", ".", "i", "t", "e", "m">>), Lit(<<"i", "t", "e", "m", ".", "a">>),
     Lit(<<"d", "o", "c", "s", ".", "i", "t", "e", "m", ".",
           "m", "e", "t", "a">>),
     Lit(<<"d", "o", "c", "s", ".", "i", "t", "e", "m", ".",
           "m", "e", "t", "a", ".", "i", "t", "e", "m">>)}

---------------------------------------------------------------------------
(* The state machine *)

\* the prefix strings a Prefix filter is built with
Prefixes == {Lit(<<>>), Lit(<<"a">>)}

\* the parser's fields as one configuration
P == [state |-> state, stack |-> stack, peeked |-> peeked, input |-> input,
      eof |-> eof, budget |-> budget, script |-> script, tail |-> tail,
      failed |-> failed]

\* a log with the items added: whole over a scripted input, cut at MaxOut
\* over an open one
Logged(log, items) ==
    LET all == log \o items IN
    IF script.on \/ Len(all) <= MaxOut THEN all ELSE SubSeq(all, 1, MaxOut)

\* Parser::new, and a consumer that has made no call yet
Parser_new ==
    /\ state = StEvent(FALSE)
    /\ stack = <<>>
    /\ peeked = NoPeek
    /\ input = <<>>
    /\ eof = FALSE
    /\ tail = 0
    /\ failed = FALSE
    /\ panicked = FALSE
    /\ out = <<>>
    /\ last = NoItem
    /\ ncalls = 0
    /\ path = <<>>
    /\ fout = <<>>
    /\ flast = NoItem
    /\ values = <<>>
    /\ taken = <<>>
    /\ source = <<>>
    /\ lexer = Lexer_new(<<>>, TRUE)
    /\ lexed = <<>>

\* Parser::new, then bare or under Builder::prefix, over an input of at
\* most `len` lexer items
InitWith(len) ==
    /\ budget = len
    /\ script = NoScript
    /\ doc = NoDoc
    /\ built = FALSE
    /\ Parser_new
    /\ \/ wrapped = FALSE /\ reference = <<>>
       \/ wrapped = TRUE /\ \E s \in Prefixes : reference = Builder_prefix(s)

\* what a call leaves in the parser's fields and logs
ParserAfter(q, seen) ==
    /\ state' = q.state
    /\ stack' = q.stack
    /\ peeked' = q.peeked
    /\ input' = q.input
    /\ eof' = q.eof
    /\ budget' = q.budget
    /\ script' = q.script
    /\ tail' = q.tail
    /\ out' = Logged(out, seen)
    /\ last' = seen[Len(seen)]
    /\ failed' = (failed \/ seen[Len(seen)].t = "Err")
    /\ panicked' = (seen[Len(seen)].t = "Panic")
    /\ ncalls' = (ncalls + 1) % 2
    /\ UNCHANGED lexvars

\* the consumer calls next() on the bare parser
ParserNextCall ==
    /\ ~wrapped
    /\ ~panicked
    /\ \E x \in Parser_next(P) : ParserAfter(x.p, <<x.res>>)
    /\ UNCHANGED <<doc, wrapped, reference, path, fout, flast, built, values,
                   taken>>

\* the consumer calls next() on the Prefix filter
PrefixNextCall ==
    /\ wrapped
    /\ ~panicked
    /\ \E y \in Prefix_next(P, path, reference, <<>>) :
         /\ ParserAfter(y.p, y.seen)
         /\ path' = y.path
         /\ fout' = Logged(fout, <<y.res>>)
         /\ flast' = y.res
    /\ UNCHANGED <<doc, wrapped, reference, built, values, taken>>

Next == ParserNextCall \/ PrefixNextCall

Init == InitWith(MaxLen)

Spec == Init /\ [][Next]_vars

\* a consumer that drains the iterator (Iterator::last): every call it can
\* make, it makes
DrainInit == InitWith(DrainLen)

FairSpec == DrainInit /\ [][Next]_vars /\ WF_vars(Next)

\* the Prefix filter alone, over every input: Parser::new(f).prefix(..)
PrefixInit == InitWith(TrackLen) /\ wrapped

PrefixSpec == PrefixInit /\ [][PrefixNextCall]_vars

\* Parser::new over the text of a document, under Builder::prefix
DocInit ==
    /\ budget = 0
    /\ \E t \in Docs :
         /\ doc = t
         /\ script = [on |-> TRUE, rest |-> Doc_lexemes(t)]
    /\ Parser_new
    /\ wrapped = TRUE
    /\ built = FALSE
    /\ \E s \in DocPrefixes : reference = Builder_prefix(s)

\* the consumer collects the Prefix filter: it calls next() until None
DocPrefixNextCall ==
    /\ flast.t # "None"
    /\ PrefixNextCall

DocNext == DocPrefixNextCall

DocSpec == DocInit /\ [][DocNext]_vars

\* the prefixes Builder::items is called with over a document
ItemsPrefixes ==
    {Lit(<<>>), Lit(<<"i", "t", "e", "m">>), Lit(<<"a">>),
     Lit(<<"i", "t", "e", "m", ".", "a">>),
     Lit(<<"d", "o", "c", "s", ".", "i", "t", "e", "m">>)}

\* Parser::new over the text of a document, under Builder::items
ItemsInit ==
    /\ budget = 0
    /\ \E t \in Docs :
         /\ doc = t
         /\ script = [on |-> TRUE, rest |-> Doc_lexemes(t)]
    /\ Parser_new
    /\ wrapped = TRUE
    /\ built = TRUE
    /\ \E s \in ItemsPrefixes : reference = Builder_prefix(s)

\* the consumer collects Items, unwrapping each result: it calls next()
\* until None
ItemsNextCall ==
    /\ built
    /\ IF values = <<>> THEN TRUE ELSE values[Len(values)].t = "Ok"
    /\ \E z \in Items_next([p |-> P, path |-> path, seen |-> <<>>,
                             taken |-> <<>>], reference) :
         /\ ParserAfter(z.c.p, z.c.seen)
         /\ path' = z.c.path
         /\ fout' = Logged(fout, z.c.taken)
         /\ flast' = z.c.taken[Len(z.c.taken)]
         /\ values' = Append(values, z.res)
         /\ taken' = z.c.taken
    /\ UNCHANGED <<doc, wrapped, reference, built>>

ItemsSpec == ItemsInit /\ [][ItemsNextCall]_vars

\* Parser::new under Builder::items, over every input of at most TrackLen
\* lexer items
BuildInit ==
    /\ budget = TrackLen
    /\ script = NoScript
    /\ doc = NoDoc
    /\ Parser_new
    /\ wrapped = TRUE
    /\ built = TRUE
    /\ \E s \in Prefixes : reference = Builder_prefix(s)

\* the consumer calls Items::next, also after an Err, up to MaxCalls times;
\* None or a panic ends the iteration
BuildNextCall ==
    /\ built
    /\ Len(values) < MaxCalls
    /\ IF values = <<>> THEN TRUE
       ELSE values[Len(values)].t \in {"Ok", "Err"}
    /\ \E z \in Items_next([p |-> P, path |-> path, seen |-> <<>>,
                             taken |-> <<>>], reference) :
         /\ ParserAfter(z.c.p, z.c.seen)
         /\ path' = z.c.path
         /\ fout' = Logged(fout, z.c.taken)
         /\ flast' = z.c.taken[Len(z.c.taken)]
         /\ values' = Append(values, z.res)
         /\ taken' = z.c.taken
    /\ UNCHANGED <<doc, wrapped, reference, built>>

BuildSpec == BuildInit /\ [][BuildNextCall]_vars

---------------------------------------------------------------------------
(* The JSON grammar over lexemes, written independently of the parser *)

ScalarLexemes == {NullLx, TrueLx, FalseLx, NumLx, StrLx}

\* the lexeme at position i of a sequence of lexer items, <<>> if none
LexAt(seq, i) ==
    IF i >= 1 /\ i <= Len(seq) /\ seq[i].tag = "Ok" THEN seq[i].v ELSE <<>>

\* ValueEnd(seq, i): the position after the value that starts at i, 0 if
\* no value starts there; ElementsEnd and MembersEnd: the same for the rest
\* of an array or object whose next element or member starts at i
RECURSIVE ValueEnd(_, _), ElementsEnd(_, _), MembersEnd(_, _)
ValueEnd(seq, i) ==
    IF LexAt(seq, i) \in ScalarLexemes THEN i + 1
    ELSE IF LexAt(seq, i) = OBracket THEN
        IF LexAt(seq, i + 1) = CBracket THEN i + 2 ELSE ElementsEnd(seq, i + 1)
    ELSE IF LexAt(seq, i) = OBrace THEN
        IF LexAt(seq, i + 1) = CBrace THEN i + 2 ELSE MembersEnd(seq, i + 1)
    ELSE 0

ElementsEnd(seq, i) ==
    LET j == ValueEnd(seq, i) IN
    IF j = 0 THEN 0
    ELSE IF LexAt(seq, j) = CBracket THEN j + 1
    ELSE IF LexAt(seq, j) = CommaLx THEN ElementsEnd(seq, j + 1)
    ELSE 0

MembersEnd(seq, i) ==
    IF LexAt(seq, i) # StrLx \/ LexAt(seq, i + 1) # ColonLx THEN 0
    ELSE LET j == ValueEnd(seq, i + 2) IN
         IF j = 0 THEN 0
         ELSE IF LexAt(seq, j) = CBrace THEN j + 1
         ELSE IF LexAt(seq, j) = CommaLx THEN MembersEnd(seq, j + 1)
         ELSE 0

\* the sequence is exactly one well-formed JSON value
WellFormed(seq) == Len(seq) > 0 /\ ValueEnd(seq, 1) = Len(seq) + 1

---------------------------------------------------------------------------
(* Vocabulary of the claims *)

ErrMoreLexemes == Err("more lexemes expected", <<>>)
ErrAdditionalData == Err("additional data", <<>>)
ErrUnmatched(lexeme) == Err("unmatched container terminator", lexeme)

Closers == {CBracket, CBrace}
IsEnd(item) == item.t = "Ok" /\ item.e \in {"EndArray", "EndMap"}
IsKey(item) == item.t = "Ok" /\ item.e = "Key"
IsValueStart(item) ==
    item.t = "Ok" /\ item.e \in {"Null", "Boolean", "Number", "String",
                                 "StartArray", "StartMap"}

\* the item the consumer got from its most recent call
Yielded == IF wrapped THEN flast ELSE last

\* the input delivered so far is a sequence of lexemes: no lexer error
NoLexerError == \A i \in 1..Len(input) : input[i].tag = "Ok"

\* the log holds every item yielded so far
LogComplete == Len(out) < MaxOut

\* the log is a run of Ok events followed by None, and nothing else
OnlyOkThenNone ==
    \E k \in 1..Len(out) :
        /\ \A i \in 1..(k - 1) : out[i].t = "Ok"
        /\ \A i \in k..Len(out) : out[i] = None

\* the first lexer item the call about to be made (or, primed, just made)
\* looks at
FirstItem ==
    IF peeked # NoPeek THEN peeked
    ELSE IF Len(input') > Len(input) THEN input'[Len(input) + 1]
    ELSE LexNone

\* the next call judges a closing token whose kind is not that of the
\* innermost open container
MismatchedCloser ==
    /\ FirstItem.tag = "Ok"
    /\ FirstItem.v \in Closers
    /\ Len(stack) > 0
    /\ stack[Len(stack)] # Expected(FirstItem.v)

---------------------------------------------------------------------------
(* Claims *)

\* C1: Parser::next yields only Ok events followed by None if and only if
\* the lexeme sequence is exactly one well-formed JSON value; every other
\* sequence yields at least one Err.  Stated of a finished run (None was
\* returned, or the call panicked) of the bare parser.
C1_OkIffWellFormed ==
    (~wrapped /\ NoLexerError /\ LogComplete /\ (last = None \/ panicked)) =>
        /\ OnlyOkThenNone <=> WellFormed(input)
        /\ ~WellFormed(input) => \E i \in 1..Len(out) : out[i].t = "Err"

\* C1, with the panic of State::Closed counted as the error the claim asks
\* for: the rest of the claim holds of the code.
C1_UpToPanic ==
    (~wrapped /\ NoLexerError /\ LogComplete /\ (last = None \/ panicked)) =>
        /\ OnlyOkThenNone <=> WellFormed(input)
        /\ ~WellFormed(input) =>
               \E i \in 1..Len(out) : out[i].t \in {"Err", "Panic"}

\* C2: the first error is terminal: once a next() call has returned
\* Some(Err), no later next() call returns a second Err or an Ok event.
\* (The claim also excludes a panic; the panic of State::Closed is C4's, and
\* is not held against the claim here.)
C2_FirstErrorTerminal ==
    [][(failed /\ NoLexerError') => Yielded'.t \in {"None", "Panic"}]_vars

\* C3: for every finite input, repeatedly calling Parser::next eventually
\* returns None.  A drain that the panic of State::Closed cuts short is not
\* held against the claim here: the formula fails on the drains that go on
\* for ever.
C3_DrainTerminates == ~wrapped => <>(last = None \/ panicked)

\* C4: in the Closed state (a complete top-level value has been emitted)
\* with a further token in the input, next() returns an 'additional data'
\* error (no panic, no None).  The Closed state holds a peeked token only
\* once a call made in that state has looked at it.
C4_AdditionalDataIsError ==
    (state.name = "Closed" /\ ~failed /\ peeked.tag = "Ok")
        => last = ErrAdditionalData

\* C5: when the input ends while the parser state is not Closed, the last
\* item the parser yielded is a 'more lexemes expected' error; a None is
\* yielded only in the Closed state.
C5_IncompleteIsMoreLexemes ==
    /\ (eof /\ state.name # "Closed") => last = ErrMoreLexemes
    /\ last = None => (eof /\ state.name = "Closed")

C5_Witness ==
    /\ ~wrapped
    /\ eof
    /\ input = <<LexOk(OBrace), LexOk(StrLx), LexOk(ColonLx), LexOk(StrLx),
                 LexOk(CommaLx)>>
    /\ last = ErrMoreLexemes

\* C6: a closing bracket or brace is accepted (an End event is emitted for
\* it) only directly after the matching opener or directly after the last
\* lexeme of a complete value; never directly after a comma.
C6_CloserPlacement ==
    (NoLexerError /\ IsEnd(last)) =>
        LET n == Len(input)
            closer == LexAt(input, n)
            prev == LexAt(input, n - 1)
        IN /\ closer = (IF last.e = "EndArray" THEN CBracket ELSE CBrace)
           /\ prev \in ScalarLexemes \cup Closers
                         \cup {IF last.e = "EndArray" THEN OBracket ELSE OBrace}

\* C6 before the first error: the placement rule holds of every End event
\* the parser emits until it has returned an error.
C6_BeforeFirstError == ~failed => C6_CloserPlacement

\* C7 (as claimed): a closing token whose kind does not match the innermost
\* open container gets an 'unmatched container terminator' error in every
\* parser state.
C7_AlwaysUnmatched ==
    [][(~wrapped /\ MismatchedCloser) => last' = ErrUnmatched(FirstItem.v)]_vars

\* C7 (amended): a closing token whose kind does not match the innermost
\* open container never gets an End event; it gets 'unmatched container
\* terminator' where a closer is acceptable (states Event(can_close) and
\* Comma) and 'unexpected lexeme' where a key, a colon or a value is
\* required (states Key, Colon and Event(!can_close)).
C7_UnmatchedWhereCloserLegal ==
    [][(~wrapped /\ MismatchedCloser) =>
         last' = (IF \/ state.name = "Comma"
                     \/ state.name = "Event" /\ state.can_close
                  THEN ErrUnmatched(FirstItem.v)
                  ELSE unexpected(FirstItem.v))]_vars

C7_Witness ==
    /\ ~wrapped
    /\ input = <<LexOk(OBrace), LexOk(StrLx), LexOk(ColonLx), LexOk(NumLx),
                 LexOk(CBracket)>>
    /\ last = ErrUnmatched(CBracket)

\* C8 (as claimed): the container stack is empty if and only if the parser
\* state is Closed.
C8_EmptyIffClosed == (stack = <<>>) <=> (state.name = "Closed")

\* C8 (amended): Closed implies an empty stack; an empty stack implies the
\* state is Closed or Event (a top-level value is awaited), and Event only
\* before the first call or after an error was returned.
C8_ClosedImpliesEmpty ==
    /\ state.name = "Closed" => stack = <<>>
    /\ stack = <<>> => state.name \in {"Closed", "Event"}
    /\ (stack = <<>> /\ state.name = "Event") => (last = NoItem \/ failed)

C8_Witness ==
    /\ state.name = "Closed"
    /\ stack = <<>>
    /\ ~failed
    /\ last = Ev("EndMap", <<>>, 0)

\* C9: a Key event is emitted only while the innermost open container is a
\* map, and the item that follows a Key is the first event of a value
\* (a scalar, StartArray or StartMap) or an error.
C9_KeyThenValue ==
    /\ IsKey(last) => (Len(stack) > 0 /\ stack[Len(stack)] = 123)
    /\ \A i \in 1..(Len(out) - 1) :
         IsKey(out[i]) => (IsValueStart(out[i + 1]) \/ out[i + 1].t = "Err")

C9_Witness ==
    \E i \in 1..(Len(out) - 1) : IsKey(out[i]) /\ IsValueStart(out[i + 1])

\* C10: the Prefix filter built with the empty string yields exactly the
\* items of the unfiltered parser, in the same order.
C10_EmptyPrefixIdentity ==
    (wrapped /\ reference = <<>>) => (fout = out /\ flast = last)

C10_Witness ==
    /\ wrapped
    /\ reference = <<>>
    /\ Len(fout) >= 5
    /\ \E i \in 1..Len(fout) : IsKey(fout[i])
    /\ flast = None

---------------------------------------------------------------------------
(* The byte-level lexer run over input texts *)

\* string tokens whose escapes the JSON grammar allows
EscapedStrings ==
    {Lit(<<"\"", "a", "\"">>), Lit(<<"\"", "\"">>),
     Lit(<<"\"", "\\", "n", "\"">>), Lit(<<"\"", "\\", "\"", "\"">>),
     Lit(<<"\"", "\\", "\\", "\"">>), Lit(<<"\"", "\\", "/", "\"">>),
     Lit(<<"\"", "\\", "b", "\"">>), Lit(<<"\"", "\\", "f", "\"">>),
     Lit(<<"\"", "\\", "r", "\"">>), Lit(<<"\"", "\\", "t", "\"">>),
     Lit(<<"\"", "\\", "u", "0", "0", "4", "1", "\"">>),
     Lit(<<"\"", "\\", "u", "0", "0", "e", "9", "\"">>),
     Lit(<<"\"", "\\", "u", "2", "0", "a", "c", "\"">>),
     Lit(<<"\"", "a", "\\", "n", "b", "\"">>)}

\* string tokens with an escape that is malformed
BadEscapeStrings ==
    {Lit(<<"\"", "\\", "w", "\"">>), Lit(<<"\"", "\\", "u", "\"">>),
     Lit(<<"\"", "\\", "u", "0", "\"">>),
     Lit(<<"\"", "\\", "u", "D", "8", "0", "0", "\"">>),
     Lit(<<"\"", "\\", "u", "d", "f", "f", "f", "\"">>),
     Lit(<<"\"", "\\", "u", "1", "2", "\"">>),
     Lit(<<"\"", "\\", "u", "1", "2", "x", "4", "\"">>)}

\* texts that end inside a string literal
OpenStrings ==
    {Lit(<<"\"">>), Lit(<<"\"", "a">>), Lit(<<"\"", "a", "\\", "n">>),
     Lit(<<"\"", "\\">>), Lit(<<"\"", "a", "\\">>),
     Lit(<<"\"", "\\", "u", "0", "0">>), Lit(<<"\"", "\\", "\"">>),
     Lit(<<"\"", "\\", "u">>)}

\* numbers, whole and cut short
NumberTexts ==
    {Lit(<<"1">>), Lit(<<"1", "2">>), Lit(<<"-", "1">>), Lit(<<"+", "1">>),
     Lit(<<"1", ".", "5">>), Lit(<<"1", "e", "2">>),
     Lit(<<"1", "e", "-", "2">>), Lit(<<"-", "1", "e", "2">>),
     Lit(<<"1", "E", "+", "2">>), Lit(<<"1", ".", "5", "e", "-", "1">>),
     Lit(<<".", "5">>), Lit(<<"1", ".">>), Lit(<<"-">>), Lit(<<"1", "e">>),
     Lit(<<"1", "e", "-">>), Lit(<<".">>), Lit(<<"0">>), Lit(<<"1", "0">>)}

\* keywords, whole and cut short, and other tokens
WordTexts ==
    {Lit(<<"t", "r", "u", "e">>), Lit(<<"f", "a", "l", "s", "e">>),
     Lit(<<"n", "u", "l", "l">>), Lit(<<"t", "r", "u">>),
     Lit(<<"n", "u", "l">>), Lit(<<"t", "r", "u", "x">>),
     Lit(<<"f", "a", "l", "s">>), Lit(<<"[">>), Lit(<<"]">>), Lit(<<"{">>),
     Lit(<<"}">>), Lit(<<",">>), Lit(<<":">>), Lit(<<"x">>)}

\* what precedes the token in an input text
Before ==
    {Lit(<<>>), Lit(<<" ">>), Lit(<<"[">>), Lit(<<"1", ",">>),
     Lit(<<"\"", "a", "\"", ",">>)}

\* what follows the token in an input text
After ==
    {Lit(<<>>), Lit(<<" ">>), Lit(<<"]">>), Lit(<<",", "1">>)}

\* a text of 8 bytes that fills the buffer and ends with an exponent marker
FullBuffer == Lit(<<"[", "[", "[", "[", "[", "[", "1", "e">>)

\* the input texts: a token in a context, within BUFSIZE bytes so that one
\* read can deliver the whole text
Texts ==
    {b \o t \o a :
       b \in Before,
       t \in EscapedStrings \cup BadEscapeStrings \cup OpenStrings
              \cup NumberTexts \cup WordTexts,
       a \in After}
    \cup {FullBuffer}

LexTexts == {t \in Texts : Len(t) <= BUFSIZE}

\* Lexer::new over a reader that delivers the text in reads of any sizes
LexInit ==
    /\ budget = 0
    /\ script = NoScript
    /\ doc = NoDoc
    /\ built = FALSE
    /\ state = StEvent(FALSE)
    /\ stack = <<>>
    /\ peeked = NoPeek
    /\ input = <<>>
    /\ eof = FALSE
    /\ tail = 0
    /\ failed = FALSE
    /\ panicked = FALSE
    /\ out = <<>>
    /\ last = NoItem
    /\ ncalls = 0
    /\ path = <<>>
    /\ fout = <<>>
    /\ flast = NoItem
    /\ values = <<>>
    /\ taken = <<>>
    /\ wrapped = FALSE
    /\ reference = <<>>
    /\ source \in LexTexts
    /\ lexer = Lexer_new(source, FALSE)
    /\ lexed = <<>>

\* the consumer calls Lexer::next, and stops at None, at an error
\* (ResultIterator) or at a panic
LexNextCall ==
    /\ IF lexed = <<>> THEN TRUE ELSE lexed[Len(lexed)].t = "Ok"
    /\ \E x \in Lexer_next(lexer) :
         /\ lexer' = x.L
         /\ lexed' = Append(lexed, x.item)
    /\ UNCHANGED <<source, pvars>>

LexSpec == LexInit /\ [][LexNextCall]_vars

---------------------------------------------------------------------------
(* The parser run over texts whose string tokens hold escapes *)

\* the string tokens with escapes, as lexemes
EscLexemes == EscapedStrings \cup BadEscapeStrings

\* the lexemes of texts with the token as the whole document, as an element
\* of an array, as a key of an object, as a member's value and as both the
\* key and the value of a member
EscScripts ==
    UNION {{<<t>>,
            <<OBracket, t, CBracket>>,
            <<OBracket, NumLx, CommaLx, t, CBracket>>,
            <<OBrace, t, ColonLx, NumLx, CBrace>>,
            <<OBrace, StrLx, ColonLx, t, CBrace>>,
            <<OBrace, t, ColonLx, t, CBrace>>} : t \in EscLexemes}

\* Parser::new over such a text
EscInit ==
    /\ budget = 0
    /\ doc = NoDoc
    /\ \E sc \in EscScripts : script = [on |-> TRUE, rest |-> sc]
    /\ Parser_new
    /\ wrapped = FALSE
    /\ built = FALSE
    /\ reference = <<>>

\* the consumer calls next() until None or the first error (Iterator::last
\* over the results, as test_error does)
EscNextCall ==
    /\ last.t \notin {"None", "Err"}
    /\ ParserNextCall

EscSpec == EscInit /\ [][EscNextCall]_vars

---------------------------------------------------------------------------
(* The lexer run over number tokens *)

\* number tokens by their parts: sign, integer digits, fraction digits
\* (none: no fraction part) and exponent part with the value it writes
NumTokens ==
    [sign : {Lit(<<>>), Lit(<<"-">>), Lit(<<"+">>)},
     int : {Lit(<<"0">>), Lit(<<"1">>), Lit(<<"1", "2">>)},
     frac : {Lit(<<>>), Lit(<<"5">>), Lit(<<"0", "5">>)},
     exp : {<<Lit(<<>>), 0>>, <<Lit(<<"e", "2">>), 2>>,
            <<Lit(<<"e", "-", "2">>), -2>>, <<Lit(<<"E", "+", "2">>), 2>>,
            <<Lit(<<"e", "1", "0">>), 10>>}]
    \cup {[sign |-> Lit(<<>>),
           int |-> Lit(<<"1", "0", "0", "0", "0", "0", "0", "0", "0", "0">>),
           frac |-> Lit(<<>>), exp |-> <<Lit(<<>>), 0>>]}

\* the text of a number token
NumText(r) ==
    r.sign \o r.int \o (IF r.frac = <<>> THEN <<>> ELSE <<46>> \o r.frac)
    \o r.exp[1]

\* what precedes the number in the input
NumBefore == {Lit(<<>>), Lit(<<"1", ",">>)}

\* a lexer used alone: no parser, filter or builder is at work
LexerAlone ==
    /\ budget = 0
    /\ script = NoScript
    /\ doc = NoDoc
    /\ built = FALSE
    /\ state = StEvent(FALSE)
    /\ stack = <<>>
    /\ peeked = NoPeek
    /\ input = <<>>
    /\ eof = FALSE
    /\ tail = 0
    /\ failed = FALSE
    /\ panicked = FALSE
    /\ out = <<>>
    /\ last = NoItem
    /\ ncalls = 0
    /\ path = <<>>
    /\ fout = <<>>
    /\ flast = NoItem
    /\ values = <<>>
    /\ taken = <<>>
    /\ wrapped = FALSE
    /\ reference = <<>>

\* Lexer::new over a number in its context, read whole or in pieces
NumInit ==
    /\ LexerAlone
    /\ \E r \in NumTokens, b \in NumBefore : source = b \o NumText(r)
    /\ \E whole \in BOOLEAN : lexer = Lexer_new(source, whole)
    /\ lexed = <<>>

NumSpec == NumInit /\ [][LexNextCall]_vars

---------------------------------------------------------------------------
(* The lexer over a reader that fails *)

\* Lexer::new over a reader that delivers the text, in reads of any sizes,
\* and whose next read fails
IoInit ==
    /\ LexerAlone
    /\ source \in LexTexts
    /\ lexer = Lexer_over(source, FALSE, TRUE)
    /\ lexed = <<>>

IoSpec == IoInit /\ [][LexNextCall]_vars

---------------------------------------------------------------------------
(* What the lexer reads and the parser pulls: a lexer over a text, or a    *)
(* bare parser over the lexemes of its lexer                               *)

AheadInit == LexInit \/ (InitWith(TrackLen) /\ ~wrapped)

\* the consumer of the lexer over a text
AheadLexerCall == source # <<>> /\ LexNextCall

\* the consumer of the parser; no text is modelled below its lexer
AheadParserCall == source = <<>> /\ ParserNextCall

AheadNext == AheadLexerCall \/ AheadParserCall

AheadSpec == AheadInit /\ [][AheadNext]_vars

---------------------------------------------------------------------------
(* Vocabulary of the claims about the Prefix filter *)

\* the Ok events of a log, in order
OkEvents(log) == SelectSeq(log, LAMBDA x : x.t = "Ok")

\* the event a scalar value is reported as
ScalarEvent(t) ==
    CASE t.k = "Null" -> Ev("Null", <<>>, 0)
      [] t.k = "Boolean" -> Ev("Boolean", <<>>, t.n)
      [] t.k = "Number" -> Ev("Number", <<>>, t.n)
      [] t.k = "String" -> Ev("String", t.v, 0)

Item == Lit(<<"i", "t", "e", "m">>)

\* the events of a document with the place of each, [ev, loc]: a value is
\* located at the member names and `item`s that lead to it from the top, its
\* Start and End events where the value is, a Key where its object is
RECURSIVE Located(_, _), LocatedKids(_, _, _)
Located(t, loc) ==
    IF t.k = "Array" THEN
        <<[ev |-> Ev("StartArray", <<>>, 0), loc |-> loc]>>
        \o LocatedKids(t, 1, loc)
        \o <<[ev |-> Ev("EndArray", <<>>, 0), loc |-> loc]>>
    ELSE IF t.k = "Object" THEN
        <<[ev |-> Ev("StartMap", <<>>, 0), loc |-> loc]>>
        \o LocatedKids(t, 1, loc)
        \o <<[ev |-> Ev("EndMap", <<>>, 0), loc |-> loc]>>
    ELSE <<[ev |-> ScalarEvent(t), loc |-> loc]>>

LocatedKids(t, i, loc) ==
    IF i > Len(t.kids) THEN <<>>
    ELSE IF t.k = "Object" THEN
        <<[ev |-> Ev("Key", t.keys[i], 0), loc |-> loc]>>
        \o Located(t.kids[i], Append(loc, t.keys[i]))
        \o LocatedKids(t, i + 1, loc)
    ELSE Located(t.kids[i], Append(loc, Item)) \o LocatedKids(t, i + 1, loc)

\* the place lies at or below the reference path
Under(loc, ref) ==
    Len(ref) <= Len(loc) /\ \A i \in 1..Len(ref) : loc[i] = ref[i]

\* the located events of the document that the parser has reported so far
Reported == SubSeq(Located(doc, <<>>), 1, Len(OkEvents(out)))

\* of those, the events at or below the reference path
ReportedUnder ==
    LET under == SelectSeq(Reported, LAMBDA x : Under(x.loc, reference))
    IN [i \in 1..Len(under) |-> under[i].ev]

\* the containers a run of events leaves open, innermost last; <<"bad">> if
\* an End event closes a container of the other kind or none
RECURSIVE OpenAfter(_, _)
OpenAfter(evs, open) ==
    IF evs = <<>> THEN open
    ELSE LET e == Head(evs).e IN
         IF e \in {"StartArray", "StartMap"}
         THEN OpenAfter(Tail(evs), Append(open, e))
         ELSE IF e \in {"EndArray", "EndMap"} THEN
            IF open # <<>> /\ open[Len(open)] =
                    (IF e = "EndArray" THEN "StartArray" ELSE "StartMap")
            THEN OpenAfter(Tail(evs), SubSeq(open, 1, Len(open) - 1))
            ELSE <<"bad">>
         ELSE OpenAfter(Tail(evs), open)

RefPrefix ==
    <<Lit(<<"d", "o", "c", "s">>), Item, Lit(<<"m", "e", "t", "a">>), Item>>

\* C11: the Prefix filter yields an event exactly when the place of the
\* event (for Key, EndMap and EndArray the path after the pop, for Key,
\* StartMap and StartArray before the push) lies at or below the reference
\* path: the yielded events are the reported events of the document so
\* located, so the Start and End of a value at the reference path are
\* yielded, the Key that labels it and the Start and End of its container
\* are not; over the reference document, the prefix docs.item.meta.item
\* yields StartArray, Number(1), EndArray, StartMap, EndMap.
C11_YieldedIffUnder ==
    /\ OkEvents(fout) = ReportedUnder
    /\ (doc = RefDoc /\ reference = RefPrefix /\ flast = None) =>
         fout = <<Ev("StartArray", <<>>, 0), Ev("Number", <<>>, 1),
                  Ev("EndArray", <<>>, 0), Ev("StartMap", <<>>, 0),
                  Ev("EndMap", <<>>, 0), None>>

C11_Witness ==
    /\ doc = RefDoc
    /\ reference = RefPrefix
    /\ flast = None
    /\ Len(OkEvents(fout)) = 5
    /\ Len(OkEvents(out)) > 30

\* C12 as stated: over a well-formed input the yielded events are a
\* contiguous run of the unfiltered stream (once an event is yielded, the
\* next one yielded is the very next event of the parser) in which every
\* StartMap/StartArray is matched by its own EndMap/EndArray.
C12_ContiguousRun ==
    [][/\ (flast.t = "Ok" /\ flast'.t = "Ok") => Len(out') = Len(out) + 1
       /\ OpenAfter(OkEvents(fout'), <<>>) # <<"bad">>
       /\ flast'.t = "None" => OpenAfter(OkEvents(fout'), <<>>) = <<>>]_vars

\* C12, amended: the yielded events are whole values: every
\* StartMap/StartArray is matched by its own EndMap/EndArray, and no event
\* is dropped between a yielded Start event and its End; events are dropped
\* only between one yielded value and the next.
C12_WholeValues ==
    [][/\ (flast'.t = "Ok" /\ OpenAfter(OkEvents(fout), <<>>) # <<>>) =>
            Len(out') = Len(out) + 1
       /\ OpenAfter(OkEvents(fout'), <<>>) # <<"bad">>
       /\ flast'.t = "None" => OpenAfter(OkEvents(fout'), <<>>) = <<>>]_vars

\* two yielded values with dropped events between them, one a container
C12_Witness ==
    /\ flast = None
    /\ \E i \in 1..Len(fout) : fout[i].e \in {"StartArray", "StartMap"}
    /\ \E i, j, k \in 1..Len(Reported) :
         /\ i < j /\ j < k
         /\ Under(Reported[i].loc, reference)
         /\ ~Under(Reported[j].loc, reference)
         /\ Under(Reported[k].loc, reference)

\* Prefix::next's path after a run of items: errors leave it alone
RECURSIVE Tracked(_, _)
Tracked(items, pth) ==
    IF items = <<>> THEN pth
    ELSE IF Head(items).t # "Ok" THEN Tracked(Tail(items), pth)
    ELSE Tracked(Tail(items), PathPushed(PathPopped(pth, Head(items)), Head(items)))

\* what an event adds to the number of containers open
Opens(item) ==
    IF item.t # "Ok" THEN 0
    ELSE IF item.e \in {"StartArray", "StartMap"} THEN 1
    ELSE IF item.e \in {"EndArray", "EndMap"} THEN -1
    ELSE 0

\* along a run of items that finds the tracker with path `pth` and `open`
\* containers open: no Key, EndMap or EndArray finds the path empty, after
\* each item the path is as long as the number of containers open, and the
\* run leaves the tracker with the path it has now
RECURSIVE DepthKept(_, _, _)
DepthKept(items, pth, open) ==
    IF items = <<>> THEN pth = path
    ELSE LET x == Head(items)
             after == Tracked(<<x>>, pth)
         IN /\ (IsKey(x) \/ IsEnd(x)) => pth # <<>>
            /\ Len(after) = open + Opens(x)
            /\ DepthKept(Tail(items), after, open + Opens(x))

\* C13: after each event of the parser's stream, the length of the
\* tracker's path is the number of containers open at that point; the path
\* is empty when none is open, and no Key, EndMap or EndArray finds the path
\* empty.
C13_PathDepth ==
    (wrapped /\ LogComplete) => DepthKept(out, <<>>, 0)

C13_Witness ==
    /\ wrapped
    /\ LogComplete
    /\ path = <<>>
    /\ \E i \in 1..Len(out) : IsKey(out[i])
    /\ \E i \in 1..Len(out) : out[i].t = "Err"
    /\ IsEnd(out[Len(out)])

---------------------------------------------------------------------------
(* Vocabulary of the claims about the builder *)

\* the Json a document denotes: elements in order, each member name mapped
\* to the value of the last member of that name
RECURSIVE Denote(_)
Denote(t) ==
    CASE t.k = "Null" -> Json_Null
      [] t.k = "Boolean" -> Json_Boolean(t.n)
      [] t.k = "Number" -> Json_F64(t.n)
      [] t.k = "String" -> Json_String(t.v)
      [] t.k = "Array" -> Json_Array([i \in 1..Len(t.kids) |-> Denote(t.kids[i])])
      [] t.k = "Object" ->
           Json_Object([key \in {t.keys[i] : i \in 1..Len(t.keys)} |->
               LET at == {i \in 1..Len(t.keys) : t.keys[i] = key}
                   i == CHOOSE i \in at : \A j \in at : j <= i
               IN Denote(t.kids[i])])

\* the values of a document located at the reference path, in document
\* order; t is the value located at loc
RECURSIVE ValuesAt(_, _, _), ValuesAtKids(_, _, _, _)
ValuesAt(t, loc, ref) ==
    IF loc = ref THEN <<t>>
    ELSE IF Under(ref, loc) THEN ValuesAtKids(t, 1, loc, ref)
    ELSE <<>>

ValuesAtKids(t, i, loc, ref) ==
    IF i > Len(t.kids) THEN <<>>
    ELSE ValuesAt(t.kids[i],
                  Append(loc, IF t.k = "Object" THEN t.keys[i] ELSE Item), ref)
         \o ValuesAtKids(t, i + 1, loc, ref)

\* the events are those of exactly one value: one scalar event, or a Start
\* event through its own End event
OneValue(evs) ==
    /\ evs # <<>>
    /\ \A i \in 1..Len(evs) : evs[i].t = "Ok"
    /\ IF Len(evs) = 1
       THEN evs[1].e \in {"Null", "Boolean", "Number", "String"}
       ELSE /\ OpenAfter(evs, <<>>) = <<>>
            /\ \A j \in 1..(Len(evs) - 1) :
                 OpenAfter(SubSeq(evs, 1, j), <<>>) \notin {<<>>, <<"bad">>}

\* C14: a successful Items::next call consumes from the filtered stream the
\* events of exactly one value (one scalar event, or a Start event through
\* its matching End) and nothing after it, neither from the filter nor from
\* the parser; it returns None when, and only when, the stream is exhausted.
C14_OneValuePerCall ==
    (built /\ values # <<>>) =>
        LET r == values[Len(values)] IN
        /\ r.t = "Ok" => (OneValue(taken) /\ last = taken[Len(taken)])
        /\ r.t = "None" <=> taken = <<None>>

C14_Witness ==
    /\ built
    /\ reference # <<>>
    /\ Len(values) >= 2
    /\ values[Len(values)].t = "Ok"
    /\ Len(taken) >= 3

\* C15: items(prefix) over a well-formed document yields one Value for each
\* value located at the prefix path, in document order, and then None: one
\* Value for the empty prefix, one per element of a top-level array for the
\* prefix `item`.
C15_OneValuePerLocated ==
    built =>
        LET at == ValuesAt(doc, <<>>, reference) IN
        \A i \in 1..Len(values) :
            IF i <= Len(at) THEN values[i] = SomeOk(Denote(at[i]))
            ELSE i = Len(at) + 1 /\ values[i] = NoneValue

C15_Witness ==
    /\ built
    /\ reference = <<Item>>
    /\ doc.k = "Array"
    /\ Len(doc.kids) >= 2
    /\ Len(values) = Len(doc.kids) + 1
    /\ values[Len(values)] = NoneValue

\* C16: fed the parser's whole event sequence (the empty prefix), the
\* builder returns in one call a single Json equal to the one the document
\* denotes (same nesting, element order, key-to-value mapping and scalars),
\* and None after it.
C16_BuiltIsDenoted ==
    (built /\ reference = <<>> /\ values # <<>>) =>
        /\ values[1] = SomeOk(Denote(doc))
        /\ Len(values) = 1 =>
             taken = [i \in 1..Len(Located(doc, <<>>)) |-> Located(doc, <<>>)[i].ev]
        /\ Len(values) > 1 => values = <<SomeOk(Denote(doc)), NoneValue>>

C16_Witness ==
    /\ built
    /\ reference = <<>>
    /\ doc = RefDoc
    /\ Len(values) = 2
    /\ values[1].t = "Ok"
    /\ values[1].val.k = "Object"

---------------------------------------------------------------------------
(* Vocabulary of the claims about the lexer *)

\* the results of the calls up to the first that is not a lexeme, when
\* every read delivers all that is left of the input
RECURSIVE LexAll(_, _)
LexAll(L, acc) ==
    LET x == CHOOSE x \in Lexer_next(L) : TRUE IN
    IF x.item.t = "Ok" THEN LexAll(x.L, Append(acc, x.item))
    ELSE Append(acc, x.item)

OneRead(bytes) == LexAll(Lexer_new(bytes, TRUE), <<>>)

\* the consumer has stopped
LexDone == lexed # <<>> /\ lexed[Len(lexed)].t # "Ok"

\* C17: however the byte source splits the input into reads, the lexer
\* returns the lexemes, and the error, None or panic that ends them, that it
\* returns when the whole input arrives in one read.
C17_SameAsOneRead ==
    LET one == OneRead(source) IN
    \A i \in 1..Len(lexed) : i <= Len(one) /\ lexed[i] = one[i]

\* where a text ends, read by the JSON grammar of strings: "Out" outside a
\* string literal, "In" inside one after well-formed escapes only, "Esc" right
\* after a backslash, "Hex" inside the four digits of a \u escape, "Bad" after
\* an escape that is malformed
IsHexDigit(b) == b \in 48..57 \cup 65..70 \cup 97..102
HexValue(b) == IF b <= 57 THEN b - 48 ELSE IF b <= 70 THEN b - 55 ELSE b - 87
EscapeLetters == Lit(<<"\"", "\\", "/", "b", "f", "n", "r", "t">>)

RECURSIVE StringTail(_, _, _, _, _)
StringTail(bytes, i, mode, left, val) ==
    IF i > Len(bytes) \/ mode = "Bad" THEN mode
    ELSE LET b == bytes[i] IN
         CASE mode = "Out" ->
                StringTail(bytes, i + 1, IF b = 34 THEN "In" ELSE "Out", 0, 0)
           [] mode = "In" ->
                StringTail(bytes, i + 1,
                           IF b = 34 THEN "Out" ELSE IF b = 92 THEN "Esc" ELSE "In",
                           0, 0)
           [] mode = "Esc" ->
                IF b = 117 THEN StringTail(bytes, i + 1, "Hex", 4, 0)
                ELSE IF \E k \in 1..Len(EscapeLetters) : EscapeLetters[k] = b
                     THEN StringTail(bytes, i + 1, "In", 0, 0)
                     ELSE "Bad"
           [] OTHER ->
                IF ~IsHexDigit(b) THEN "Bad"
                ELSE LET v == val * 16 + HexValue(b) IN
                     IF left > 1 THEN StringTail(bytes, i + 1, "Hex", left - 1, v)
                     ELSE IF v \in 55296..57343 THEN "Bad"
                     ELSE StringTail(bytes, i + 1, "In", 0, 0)

\* the input ends inside a string literal whose escapes so far are well formed
EndsInString(bytes) == StringTail(bytes, 1, "Out", 0, 0) \in {"In", "Esc"}

\* C18: when the input ends inside a string literal, after the opening quote
\* and before an unescaped closing quote, the last item the lexer yields is the
\* unterminated-string error.
C18_UnterminatedIsLast ==
    (LexDone /\ EndsInString(source)) =>
        lexed[Len(lexed)] = LxErr("Unterminated", <<>>)

\* the last lexeme the parser took from the lexer is a string token with a
\* malformed escape, and the parser has processed it
BadEscapeTaken ==
    /\ input # <<>>
    /\ input[Len(input)].v \in BadEscapeStrings
    /\ peeked = NoPeek

\* C19: a string token with an unknown escape letter, with a \u followed by
\* fewer than four hexadecimal digits or with a \u escape of a lone surrogate
\* makes the call that takes it yield the malformed-escape error, which is the
\* last item, and never a String or a Key event.
C19_MalformedEscapeIsError ==
    BadEscapeTaken => (last.t = "Err" /\ last.e = "malformed escape")

\* UTF-8 of a code point below 2^16, by the encoding's definition
Utf8Of(cp) ==
    IF cp < 128 THEN <<cp>>
    ELSE IF cp < 2048 THEN <<192 + (cp \div 64), 128 + (cp % 64)>>
    ELSE <<224 + (cp \div 4096), 128 + ((cp \div 64) % 64), 128 + (cp % 64)>>

\* the character a standard JSON escape letter denotes
StdEscape(b) ==
    CASE b = 34 -> 34
      [] b = 92 -> 92
      [] b = 47 -> 47
      [] b = 98 -> 8
      [] b = 102 -> 12
      [] b = 110 -> 10
      [] b = 114 -> 13
      [] b = 116 -> 9

\* the text a well-formed string body denotes (RFC 8259, section 7)
RECURSIVE StdDecode(_, _)
StdDecode(bytes, i) ==
    IF i > Len(bytes) THEN <<>>
    ELSE IF bytes[i] # 92 THEN <<bytes[i]>> \o StdDecode(bytes, i + 1)
    ELSE IF bytes[i + 1] = 117
      THEN Utf8Of(HexValue(bytes[i + 2]) * 4096 + HexValue(bytes[i + 3]) * 256
                  + HexValue(bytes[i + 4]) * 16 + HexValue(bytes[i + 5]))
           \o StdDecode(bytes, i + 6)
      ELSE <<StdEscape(bytes[i + 1])>> \o StdDecode(bytes, i + 2)

\* C20: a string whose escapes are the standard ones (\" \\ \/ \b \f \n \r \t
\* and \uXXXX of a non-surrogate code point) is accepted, and the String
\* lexeme carries the text with every escape decoded to its character.
C20_StandardEscapesDecode ==
    \A t \in EscapedStrings, b \in {Lit(<<>>), Lit(<<" ">>)}, a \in After :
        (source = b \o t \o a /\ lexed # <<>>) =>
            lexed[1] = Lx("String", StdDecode(trim(t), 1), 0, 0)

\* the parser has read a member whose key and value are the same string token
SameTokenMember ==
    /\ Len(input) >= 4
    /\ input[2].v = input[4].v
    /\ input[2].v \in EscLexemes
    /\ Len(out) >= 3
    /\ IsKey(out[2])
    /\ out[3].t = "Ok" /\ out[3].e = "String"

\* C21: the Key event and the String event made from the same quoted token
\* carry the same text, with every escape of the token decoded.
C21_KeyDecodedAsString == SameTokenMember => out[2].v = out[3].v

\* the integer a run of decimal digits writes
RECURSIVE DigitsValue(_)
DigitsValue(ds) ==
    IF ds = <<>> THEN 0
    ELSE DigitsValue(SubSeq(ds, 1, Len(ds) - 1)) * 10 + (ds[Len(ds)] - 48)

\* the Number lexeme of the value m * 10^k
RECURSIVE NumberOf(_, _)
NumberOf(m, k) ==
    IF m = 0 THEN Lx("Number", <<>>, 0, 0)
    ELSE IF m % 10 = 0 THEN NumberOf(m \div 10, k + 1)
    ELSE Lx("Number", <<>>, m, k)

\* the mantissa of a number token, all its integer and fraction digits with
\* its sign, and its exponent less the count of fraction digits
Mantissa(r) ==
    LET m == DigitsValue(r.int \o r.frac) IN
    IF r.sign = <<45>> THEN 0 - m ELSE m
Exponent(r) == r.exp[2] - Len(r.frac)

\* C22: the Number lexeme of a number token is the value mantissa * 10^k with
\* the mantissa made of all integer and fraction digits, signed, and k the
\* exponent less the count of fraction digits.
C22_NumberValue ==
    \A r \in NumTokens, b \in NumBefore :
        LET at == IF b = <<>> THEN 1 ELSE 3 IN
        (source = b \o NumText(r) /\ Len(lexed) >= at) =>
            lexed[at] = NumberOf(Mantissa(r), Exponent(r))

\* C23: the call of Lexer::next in which a read of the byte source fails
\* returns that failure as an I/O error: it does not panic and returns no
\* lexeme made of the bytes read so far.
C23_ReadFailureIsIoError ==
    lexer.f.failed => lexed[Len(lexed)] = LxErr("IO", <<>>)

\* a read failed inside a string, after part of its text was taken, and after
\* a lexeme was returned
C23_Witness ==
    /\ lexer.f.failed
    /\ lexer.tmp # <<>>
    /\ Len(lexed) >= 2
    /\ lexed[Len(lexed)] = LxErr("IO", <<>>)

\* the last byte of the text of a keyword or punctuation lexeme, and of a
\* string's (its closing quote)
LastByte(item) ==
    CASE item.k = "String" -> 34
      [] item.k = "Boolean" -> 101
      [] item.k = "Null" -> 108
      [] item.k = "OBrace" -> 123
      [] item.k = "CBrace" -> 125
      [] item.k = "OBracket" -> 91
      [] item.k = "CBracket" -> 93
      [] item.k = "Comma" -> 44
      [] item.k = "Colon" -> 58

\* how many bytes of the text the lexer has moved its cursor over
Consumed == Len(source) - Len(lexer.f.rest) - lexer.len + lexer.pos

\* the lexer has just returned a lexeme that is not a number
ReturnedToken ==
    /\ lexed # <<>>
    /\ lexed[Len(lexed)].t = "Ok"
    /\ lexed[Len(lexed)].k # "Number"

\* the parser has just returned the event that closes the top-level value
ReturnedClosing == state.name = "Closed" /\ last.t = "Ok"

\* C24: when Lexer::next returns a string, keyword or punctuation lexeme the
\* cursor is just past the token's last byte in the buffer of the read that
\* delivered it, so no read was issued after that byte; and when the parser
\* returns the event that closes the top-level value, the last lexeme pulled
\* from the lexer is the one of that event and none is held peeked.
C24_NoLookAhead ==
    /\ ReturnedToken =>
         /\ lexer.pos >= 1
         /\ lexer.pos <= lexer.len
         /\ source[Consumed] = LastByte(lexed[Len(lexed)])
         /\ lexer.buf[lexer.pos] = LastByte(lexed[Len(lexed)])
    /\ ReturnedClosing =>
         /\ peeked = NoPeek
         /\ ~eof
         /\ input # <<>>
         /\ input[Len(input)].tag = "Ok"
         /\ process_event(input[Len(input)].v) = last

\* a string was returned whose closing quote is the last byte of a read, with
\* bytes still unread in the reader
C24_Witness ==
    /\ ReturnedToken
    /\ lexed[Len(lexed)].k = "String"
    /\ lexer.f.rest # <<>>
    /\ lexer.pos = lexer.len

\* C25: the lexer reads buf only at a cursor below the fill level, which is
\* at most the capacity, and computes no index below 0: no byte at or beyond
\* len is ever read and no call panics on an index.
C25_BufferSafe ==
    /\ ~lexer.stale
    /\ \A i \in 1..Len(lexed) : lexed[i].t # "Panic"

\* the messages of the builder's own panics (builder.rs:73, 77, 94)
BuilderPanics ==
    {"Unexpected Key event", "Expected more events after a Key event",
     "unreachable"}

\* C26: over the events of the parser, filtered by any prefix, Items::next
\* never takes one of its panicking branches: no Key where a value is
\* expected, no other event than Key or EndMap directly inside a map, no end of
\* the stream right after a Key.
C26_BuilderNeverPanics ==
    \A i \in 1..Len(values) :
        values[i].t = "Panic" => values[i].err.e \notin BuilderPanics

\* C27: an Err of the wrapped parser is what the call of Prefix::next that
\* receives it returns, whether or not the path matches the reference, and the
\* path after the call is the one the events before the Err in that call left.
C27_ErrPassedPathKept ==
    [][(last'.t = "Err" /\ Len(out') < MaxOut) =>
         /\ flast' = last'
         /\ path' = Tracked(SubSeq(out', Len(out) + 1, Len(out') - 1), path)]_vars

\* an Err was returned while the path, inside a container, did not match the
\* reference, after events the filter had dropped in the same call
C27_Witness ==
    /\ wrapped
    /\ last.t = "Err"
    /\ flast = last
    /\ path # <<>>
    /\ ~starts_with(path, reference)
    /\ Len(out) >= 2
    /\ fout = <<flast>>

\* C28: in every reachable state of the parser, also after errors, the
\* container stack is not empty when the state is Comma, and the lookup of the
\* top of the stack after a ',' has never indexed an empty stack.
C28_CommaHasStack ==
    /\ state.name = "Comma" => stack # <<>>
    /\ last # Panic("index out of bounds")

\* the parser is in Comma after it returned an error and was called again
C28_Witness ==
    /\ source = <<>>
    /\ state.name = "Comma"
    /\ failed
    /\ last.t = "Ok"
    /\ Len(stack) >= 1

====
